---- MODULE Spec2Model ----
(***************************************************************************)
(* Model of the Smileycache world/cache engine (src/src/utils.ts with      *)
(* src/src/world.ts and src/src/map.ts), and of the earlier program of     *)
(* src/src/main.ts, whose definitions are named main_...                   *)
(*                                                                         *)
(* Strings are sequences of tokens: a decimal digit, "-", a punctuation    *)
(* mark, or a quoted JSON name.  Numbers are printed and parsed digit by   *)
(* digit, JSON is serialised to and parsed from token sequences.           *)
(* Latitudes and longitudes are integers counted in units of               *)
(* CELL_DEGREES / Sub degrees (exact arithmetic, no floating-point drift). *)
(***************************************************************************)
EXTENDS Integers, Sequences, FiniteSets, TLC

VARIABLES
  luckTable,          \* the deterministic RNG (luck.ts): key -> value, fixed
  localStorage,       \* durable storage: key -> string
  playerLocation,     \* utils.ts:66
  movementHistory,    \* utils.ts:75
  playerInventory,    \* utils.ts:106
  mementoDictionary,  \* utils.ts:169, ordered list of <<key, memento>>
  rects,              \* map.ts:27, each rectangle with the cache bound to it
  autoMoveOn,         \* utils.ts:405
  watchId,            \* utils.ts:406
  watches,            \* geolocation watches registered with the browser
  nextWatch,          \* next id handed out by watchPosition
  ret,                \* the transfer the last event called, and what it
                      \* returned: <<item>>, or <<>> for null
  keyA, keyB,         \* probe of getMementoKey: two cells and their keys
  probe               \* probe of saveCacheState / getSavedCache, and of
                      \* the startup over a given storage

vars == <<luckTable, localStorage, playerLocation,
          movementHistory, playerInventory, mementoDictionary, rects,
          autoMoveOn, watchId, watches, nextWatch, ret,
          keyA, keyB, probe>>

gameVars == <<luckTable, localStorage, playerLocation,
              movementHistory, playerInventory, mementoDictionary, rects,
              autoMoveOn, watchId, watches, nextWatch, ret>>

(***************************************************************************)
(* Program constants                                                       *)
(***************************************************************************)
CELL_VISIBILITY_RADIUS == 8
MAX_CACHE_ITEMS == 10
\* CACHE_SPAWN_CHANCE = 0.1, as the fraction SpawnNum / SpawnDen
SpawnNum == 1
SpawnDen == 10
\* the item catalog of itemTypes.json
ITEM_TYPES == <<"smile", "frown">>
\* luck values are k / LuckRes for k in 0 .. LuckRes-1
LuckRes == 10 * MAX_CACHE_ITEMS

(***************************************************************************)
(* Bounds of the model                                                     *)
(***************************************************************************)
\* points per cell edge
Sub == 2
\* largest item count the modelled RNGs roll
MaxRoll == 1
\* longest movement history before the player stops moving
MaxHistory == 2
\* how many cells a button walk may leave a known point
MaxWander == 1
\* how many geolocation watches are ever registered
MaxWatches == 1
\* coordinates of the cells whose keys are compared
MaxCoord == 11
\* most items the player carries, and most items a cache is given
MaxCarry == 2
MaxStock == 2
\* how many times a world is asked for the cell of a point
MaxCalls == 2

(***************************************************************************)
(* A local constant of the code: Rest is the code that follows the         *)
(* declaration `const name = value`, with the name bound to the value.     *)
(***************************************************************************)
Bind(value, Rest(_)) == Rest(value)

(***************************************************************************)
(* Array helpers                                                           *)
(***************************************************************************)
\* the last element of a non-empty sequence, and the rest
Last(seq) == seq[Len(seq)]
Front(seq) == SubSeq(seq, 1, Len(seq) - 1)

(***************************************************************************)
(* Number.prototype.toString and its inverse                               *)
(***************************************************************************)
Digits == <<"0", "1", "2", "3", "4", "5", "6", "7", "8", "9">>

RECURSIVE NatToString(_)
NatToString(n) ==
  IF n < 10 THEN <<Digits[n + 1]>>
  ELSE NatToString(n \div 10) \o <<Digits[(n % 10) + 1]>>

NumToString(n) == IF n < 0 THEN <<"-">> \o NatToString(-n) ELSE NatToString(n)

IsDigit(t) == \E d \in 1..10 : Digits[d] = t

DigitVal(t) == (CHOOSE d \in 1..10 : Digits[d] = t) - 1

\* reads the digits of s from position p on, acc is the value read so far
RECURSIVE ReadDigits(_, _, _)
ReadDigits(s, p, acc) ==
  IF p <= Len(s) /\ IsDigit(s[p])
  THEN ReadDigits(s, p + 1, acc * 10 + DigitVal(s[p]))
  ELSE [val |-> acc, next |-> p]

\* reads a JSON integer at position p
ReadInt(s, p) ==
  IF p <= Len(s) /\ s[p] = "-"
  THEN Bind(ReadDigits(s, p + 1, 0),
            LAMBDA r : [val |-> -r.val, next |-> r.next])
  ELSE ReadDigits(s, p, 0)

\* joins the strings of a list with commas (Array.prototype.toString)
RECURSIVE Join(_)
Join(parts) ==
  IF parts = <<>> THEN <<>>
  ELSE IF Len(parts) = 1 THEN parts[1]
  ELSE parts[1] \o <<",">> \o Join(Tail(parts))

(***************************************************************************)
(* JSON.stringify and JSON.parse of the program's values                   *)
(***************************************************************************)
Quote(name) == "\"" \o name \o "\""

CellJSON(c) ==
  <<"{", "\"i\":">> \o NumToString(c.i) \o <<",", "\"j\":">> \o NumToString(c.j)
    \o <<"}">>

ItemJSON(it) ==
  <<"{", "\"type\":", Quote(it.type), ",", "\"origin\":">> \o CellJSON(it.origin)
    \o <<",", "\"serial\":">> \o NumToString(it.serial) \o <<"}">>

ItemsJSON(items) ==
  <<"[">> \o Join([k \in 1..Len(items) |-> ItemJSON(items[k])]) \o <<"]">>

PointJSON(p) ==
  <<"{", "\"lat\":">> \o NumToString(p.lat) \o <<",", "\"lng\":">> \o NumToString(p.lng)
    \o <<"}">>

PointsJSON(points) ==
  <<"[">> \o Join([k \in 1..Len(points) |-> PointJSON(points[k])]) \o <<"]">>

\* parses {"i":..,"j":..} at position p
ParseCell(s, p) ==
  Bind(ReadInt(s, p + 2), LAMBDA i :
  Bind(ReadInt(s, i.next + 2), LAMBDA j :
    [val |-> [i |-> i.val, j |-> j.val], next |-> j.next + 1]))

\* parses {"lat":..,"lng":..} at position p
ParsePoint(s, p) ==
  Bind(ReadInt(s, p + 2), LAMBDA lat :
  Bind(ReadInt(s, lat.next + 2), LAMBDA lng :
    [val |-> [lat |-> lat.val, lng |-> lng.val], next |-> lng.next + 1]))

Unquote(t) == CHOOSE k \in 1..Len(ITEM_TYPES) : Quote(ITEM_TYPES[k]) = t

\* parses {"type":..,"origin":..,"serial":..} at position p
ParseItem(s, p) ==
  Bind(ParseCell(s, p + 5), LAMBDA origin :
  Bind(ReadInt(s, origin.next + 2), LAMBDA serial :
    [val |-> [type   |-> ITEM_TYPES[Unquote(s[p + 2])],
              origin |-> origin.val,
              serial |-> serial.val],
     next |-> serial.next + 1]))

\* parses the elements of an array of items from position p to its "]"
RECURSIVE ParseItemList(_, _, _)
ParseItemList(s, p, acc) ==
  IF s[p] = "]" THEN [val |-> acc, next |-> p + 1]
  ELSE Bind(ParseItem(s, IF s[p] = "," THEN p + 1 ELSE p), LAMBDA it :
         ParseItemList(s, it.next, Append(acc, it.val)))

ParseItems(s, p) == ParseItemList(s, p + 1, <<>>)

RECURSIVE ParsePointList(_, _, _)
ParsePointList(s, p, acc) ==
  IF s[p] = "]" THEN [val |-> acc, next |-> p + 1]
  ELSE Bind(ParsePoint(s, IF s[p] = "," THEN p + 1 ELSE p), LAMBDA pt :
         ParsePointList(s, pt.next, Append(acc, pt.val)))

ParsePoints(s, p) == ParsePointList(s, p + 1, <<>>)

(***************************************************************************)
(* Cache mementos (utils.ts:109-137)                                       *)
(***************************************************************************)
createCache(cell) == [location |-> cell, numItems |-> 0, inventory |-> <<>>]

\* toMemento that writes an empty inventory
toMemento_emptyInventory(cache) ==
  <<"{", "\"location\":">> \o CellJSON(cache.location)
    \o <<",", "\"numItems\":">> \o NumToString(cache.numItems)
    \o <<",", "\"inventory\":", "[", "]", "}">>

\* toMemento that writes the current stock as numItems
toMemento_countsStock(cache) ==
  <<"{", "\"location\":">> \o CellJSON(cache.location)
    \o <<",", "\"numItems\":">> \o NumToString(Len(cache.inventory))
    \o <<",", "\"inventory\":">> \o ItemsJSON(cache.inventory) \o <<"}">>

toMemento(cache) ==
  <<"{", "\"location\":">> \o CellJSON(cache.location)
    \o <<",", "\"numItems\":">> \o NumToString(cache.numItems)
    \o <<",", "\"inventory\":">> \o ItemsJSON(cache.inventory) \o <<"}">>

\* fromMemento that does not restore numItems
fromMemento_keepCount(cache, memento) ==
  Bind(ParseCell(memento, 3), LAMBDA location :
  Bind(ReadInt(memento, location.next + 2), LAMBDA numItems :
  Bind(ParseItems(memento, numItems.next + 2), LAMBDA inventory :
    [cache EXCEPT !.location = location.val,
                  !.inventory = inventory.val])))

\* the cache after fromMemento(cache, memento): every field is overwritten
fromMemento(cache, memento) ==
  Bind(ParseCell(memento, 3), LAMBDA location :
  Bind(ReadInt(memento, location.next + 2), LAMBDA numItems :
  Bind(ParseItems(memento, numItems.next + 2), LAMBDA inventory :
    [cache EXCEPT !.location = location.val,
                  !.numItems = numItems.val,
                  !.inventory = inventory.val])))

(***************************************************************************)
(* The memento dictionary, a JavaScript object used as a string map: a     *)
(* list of <<key, value>> in property order (integer-like keys ascending,  *)
(* then the other keys in insertion order).                                *)
(***************************************************************************)
DictKeys(dict) == {dict[k][1] : k \in 1..Len(dict)}

DictHas(dict, key) == key \in DictKeys(dict)

DictGet(dict, key) == dict[CHOOSE k \in 1..Len(dict) : dict[k][1] = key][2]

\* a canonical array index: digits only, no leading zero
IsIndexKey(key) ==
  /\ Len(key) > 0
  /\ \A k \in 1..Len(key) : IsDigit(key[k])
  /\ (Len(key) > 1 => key[1] # "0")

InsertAt(dict, pos, entry) ==
  SubSeq(dict, 1, pos - 1) \o <<entry>> \o SubSeq(dict, pos, Len(dict))

\* dict[key] = value
DictPut(dict, key, value) ==
  IF DictHas(dict, key)
  THEN [k \in 1..Len(dict) |->
          IF dict[k][1] = key THEN <<key, value>> ELSE dict[k]]
  ELSE IF IsIndexKey(key)
  THEN Bind({k \in 1..Len(dict) :
               \/ ~IsIndexKey(dict[k][1])
               \/ ReadInt(dict[k][1], 1).val > ReadInt(key, 1).val},
            LAMBDA later :
              InsertAt(dict,
                       IF later = {} THEN Len(dict) + 1
                       ELSE CHOOSE k \in later : \A m \in later : k <= m,
                       <<key, value>>))
  ELSE Append(dict, <<key, value>>)

\* the tokens of a memento that contain a double quote
QuotedTokens ==
  {"\"i\":", "\"j\":", "\"type\":", "\"origin\":", "\"serial\":",
   "\"location\":", "\"numItems\":", "\"inventory\":"}
    \cup {Quote(ITEM_TYPES[k]) : k \in 1..Len(ITEM_TYPES)}

\* a string as it stands inside a JSON string literal
Escape(s) ==
  [k \in 1..Len(s) |-> IF s[k] \in QuotedTokens THEN "\\" \o s[k] ELSE s[k]]

Unescape(s) ==
  [k \in 1..Len(s) |->
     IF \E q \in QuotedTokens : "\\" \o q = s[k]
     THEN CHOOSE q \in QuotedTokens : "\\" \o q = s[k]
     ELSE s[k]]

DictEntryJSON(entry) ==
  <<"\"">> \o entry[1] \o <<"\"", ":", "\"">> \o Escape(entry[2]) \o <<"\"">>

DictJSON(dict) ==
  <<"{">> \o Join([k \in 1..Len(dict) |-> DictEntryJSON(dict[k])]) \o <<"}">>

\* the position of the first double quote of s at or after p
RECURSIVE FindQuote(_, _)
FindQuote(s, p) == IF s[p] = "\"" THEN p ELSE FindQuote(s, p + 1)

RECURSIVE ParseDictList(_, _, _)
ParseDictList(s, p, acc) ==
  IF s[p] = "}" THEN acc
  ELSE Bind(IF s[p] = "," THEN p + 1 ELSE p, LAMBDA q :
       Bind(FindQuote(s, q + 1), LAMBDA keyEnd :
       Bind(FindQuote(s, keyEnd + 3), LAMBDA valueEnd :
         ParseDictList(s, valueEnd + 1,
                       DictPut(acc, SubSeq(s, q + 1, keyEnd - 1),
                               Unescape(SubSeq(s, keyEnd + 3, valueEnd - 1)))))))

ParseDict(s) == ParseDictList(s, 2, <<>>)

(***************************************************************************)
(* The deterministic RNG (luck.ts): a fixed function from strings to       *)
(* [0, 1), chosen once; the same key always gives the same value.          *)
(***************************************************************************)
\* the value of luck for keys the table does not list: the highest one
LuckDefault == LuckRes - 1

\* luck(key) * LuckRes
luck(key) == IF key \in DOMAIN luckTable THEN luckTable[key] ELSE LuckDefault

\* [a, b].toString()
PairKey(a, b) == NumToString(a) \o <<",">> \o NumToString(b)

\* [a, b, c].toString() for a number c
TripleKey(a, b, c) == PairKey(a, b) \o <<",">> \o NumToString(c)

\* [a, b, "initialValue"].toString()
InitialValueKey(a, b) == PairKey(a, b) \o <<",", "initialValue">>

\* the least value whose floor(value * n) is k
LuckFor(k, n) == (k * LuckRes + n - 1) \div n

\* the cells that may host a cache in the modelled worlds
CellA == [i |-> 1, j |-> 12]
CellB == [i |-> 11, j |-> 2]
CellC == [i |-> 5, j |-> 5]

\* the RNG under which exactly the cells of S host a cache, each rolls n
\* items, and item k of cell c is of type (c.i + k) mod |ITEM_TYPES|
LuckTableOf(S, n) ==
  LET keys == {PairKey(c.i, c.j) : c \in S}
                \cup {InitialValueKey(c.i, c.j) : c \in S}
                \cup {TripleKey(c.i, c.j, k) : c \in S, k \in 0..(n - 1)}
  IN  [key \in keys |->
         IF \E c \in S : key = PairKey(c.i, c.j) THEN 0
         ELSE IF \E c \in S : key = InitialValueKey(c.i, c.j)
         THEN LuckFor(n, MAX_CACHE_ITEMS)
         ELSE LET ck == CHOOSE ck \in S \X (0..(n - 1)) :
                          key = TripleKey(ck[1].i, ck[1].j, ck[2])
              IN  LuckFor((ck[1].i + ck[2]) % Len(ITEM_TYPES), Len(ITEM_TYPES))]

\* the sets of cache-bearing cells of the modelled worlds
LuckySets == {{CellA, CellB}, {CellA, CellC}}

LuckTables == {LuckTableOf(S, n) : S \in LuckySets, n \in 0..MaxRoll}

(***************************************************************************)
(* The world of cells (world.ts:62-105)                                    *)
(***************************************************************************)
\* 1e-4 degrees, in the model's units
CELL_DEGREES == Sub

\* Math.round(n / d): the nearest integer, halves towards plus infinity
ToFixed0_halfUp(n, d) == (2 * n + d) \div (2 * d)

\* Number((n / d).toFixed(0)): the nearest integer, halves away from zero
ToFixed0(n, d) ==
  IF n >= 0 THEN (2 * n + d) \div (2 * d) ELSE -((2 * (-n) + d) \div (2 * d))

getCellForPoint(point) ==
  [i |-> ToFixed0(point.lat, CELL_DEGREES), j |-> ToFixed0(point.lng, CELL_DEGREES)]

\* getCellBounds anchored at the spawn point of the player
getCellBounds_fromSpawn(cell) ==
  [startCoord |-> [lat |-> 369895 * Sub + cell.i * CELL_DEGREES,
                   lng |-> (-1220628) * Sub + cell.j * CELL_DEGREES],
   endCoord   |-> [lat |-> 369895 * Sub + (cell.i + 1) * CELL_DEGREES,
                   lng |-> (-1220628) * Sub + (cell.j + 1) * CELL_DEGREES]]

getCellBounds(cell) ==
  [startCoord |-> [lat |-> cell.i * CELL_DEGREES, lng |-> cell.j * CELL_DEGREES],
   endCoord   |-> [lat |-> (cell.i + 1) * CELL_DEGREES,
                   lng |-> (cell.j + 1) * CELL_DEGREES]]

\* getKnownCell that constructs a new cell at every call
getKnownCell_alwaysNew(knownCells, cell) ==
  Bind([id |-> Len(knownCells) + 1, i |-> cell.i, j |-> cell.j], LAMBDA made :
    [knownCells |-> Append(knownCells, <<PairKey(cell.i, cell.j), made>>),
     cell       |-> made])

\* getKnownCell({i, j}) of a world: knownCells is its Map, a list of
\* <<key, cell object>> in insertion order, and id is the identity of a cell
\* object; returns the Map left and the cell object returned
getKnownCell(knownCells, cell) ==
  Bind(PairKey(cell.i, cell.j), LAMBDA key :
  Bind(IF DictHas(knownCells, key) THEN knownCells
       ELSE Append(knownCells,
                   <<key, [id |-> Len(knownCells) + 1,
                           i |-> cell.i, j |-> cell.j]>>),
       LAMBDA known :
         [knownCells |-> known, cell |-> DictGet(known, key)]))

\* world.getCellForPoint(point) with the Map of the world
getCellForPointIn(knownCells, point) ==
  getKnownCell(knownCells, getCellForPoint(point))

\* 36.9895, -122.0628: the classroom, to the precision of one cell
ORIGIN_LOCATION == [lat |-> 369895 * Sub, lng |-> (-1220628) * Sub]

(***************************************************************************)
(* Cache generation (utils.ts:139-166)                                     *)
(***************************************************************************)
setRandomNumItems(cache) ==
  [cache EXCEPT !.numItems =
     (luck(InitialValueKey(cache.location.i, cache.location.j)) * MAX_CACHE_ITEMS)
        \div LuckRes]

getRandomItemType(cell, serialNum) ==
  ITEM_TYPES[((luck(TripleKey(cell.i, cell.j, serialNum)) * Len(ITEM_TYPES))
                 \div LuckRes) + 1]

\* fillCache that numbers the items from 1
fillCache_serialFromOne(cache) ==
  Bind(setRandomNumItems(cache), LAMBDA rolled :
    [rolled EXCEPT !.inventory = cache.inventory \o
       [k \in 1..rolled.numItems |->
          [type   |-> getRandomItemType(cache.location, k),
           origin |-> cache.location,
           serial |-> k]]])

fillCache(cache) ==
  Bind(setRandomNumItems(cache), LAMBDA rolled :
    [rolled EXCEPT !.inventory = cache.inventory \o
       [k \in 1..rolled.numItems |->
          [type   |-> getRandomItemType(cache.location, k - 1),
           origin |-> cache.location,
           serial |-> k - 1]]])

(***************************************************************************)
(* The memento store (utils.ts:168-191, 258-267)                           *)
(***************************************************************************)
\* getMementoKey that writes j without its sign
getMementoKey_unsignedJ(cell) ==
  NumToString(cell.i) \o NumToString(IF cell.j < 0 THEN -cell.j ELSE cell.j)

getMementoKey(cell) == NumToString(cell.i) \o NumToString(cell.j)

\* getSavedCache that never finds a memento
getSavedCache_never(dict, cell) == <<>>

\* getSavedCache that returns an empty cache when it finds no memento
getSavedCache_emptyOnMiss(dict, cell) ==
  Bind(getMementoKey(cell), LAMBDA key :
    IF DictHas(dict, key) /\ DictGet(dict, key) # <<>>
    THEN <<fromMemento(createCache(cell), DictGet(dict, key))>>
    ELSE <<createCache(cell)>>)

\* <<cache>>, or <<>> for null
getSavedCache(dict, cell) ==
  Bind(getMementoKey(cell), LAMBDA key :
    IF DictHas(dict, key) /\ DictGet(dict, key) # <<>>
    THEN <<fromMemento(createCache(cell), DictGet(dict, key))>>
    ELSE <<>>)

\* saveCacheState that starts the dictionary over with the saved cache alone
saveCacheState_clearsOthers(dict, cache) ==
  <<<<getMementoKey(cache.location), toMemento(cache)>>>>

\* the dictionary after saveCacheState(cache)
saveCacheState(dict, cache) ==
  DictPut(dict, getMementoKey(cache.location), toMemento(cache))

\* getOrCreateCache whose items are numbered by a counter that all the caches
\* share, as the number of caches made so far
getOrCreateCache_sharedSerial(dict, cell) ==
  Bind(getSavedCache(dict, cell), LAMBDA saved :
    IF saved = <<>>
    THEN Bind(fillCache(createCache(cell)), LAMBDA cache :
         Bind([cache EXCEPT !.inventory =
                 [k \in 1..Len(cache.inventory) |->
                    [cache.inventory[k] EXCEPT !.serial = @ + Len(dict)]]],
              LAMBDA counted :
                [cache |-> counted, dict |-> saveCacheState(dict, counted)]))
    ELSE [cache |-> saved[1], dict |-> dict])

\* getOrCreateCache that does not save the cache it generates
getOrCreateCache_noSave(dict, cell) ==
  Bind(getSavedCache(dict, cell), LAMBDA saved :
    IF saved = <<>>
    THEN [cache |-> fillCache(createCache(cell)), dict |-> dict]
    ELSE [cache |-> saved[1], dict |-> dict])

\* the cache returned and the dictionary left by getOrCreateCache(cell)
getOrCreateCache(dict, cell) ==
  Bind(getSavedCache(dict, cell), LAMBDA saved :
    IF saved = <<>>
    THEN Bind(fillCache(createCache(cell)), LAMBDA cache :
           [cache |-> cache, dict |-> saveCacheState(dict, cache)])
    ELSE [cache |-> saved[1], dict |-> dict])

(***************************************************************************)
(* Persistence of the game state (utils.ts:457-489)                        *)
(***************************************************************************)
NoStorage == [key \in {} |-> <<>>]

\* localStorage.setItem(key, value)
setItem(storage, key, value) ==
  [k \in DOMAIN storage \cup {key} |-> IF k = key THEN value ELSE storage[k]]

\* saveGameState that does not write the cache mementos
saveGameState_withoutCaches(storage, location, history, inventory, dict) ==
  LET s1 == setItem(storage, "locationData", PointJSON(location))
      s2 == setItem(s1, "movementData", PointsJSON(history))
  IN  setItem(s2, "inventoryData", ItemsJSON(inventory))

\* localStorage after saveGameState()
saveGameState(storage, location, history, inventory, dict) ==
  LET s1 == setItem(storage, "locationData", PointJSON(location))
      s2 == setItem(s1, "movementData", PointsJSON(history))
      s3 == setItem(s2, "inventoryData", ItemsJSON(inventory))
  IN  setItem(s3, "cacheData", DictJSON(dict))

loadPlayerLocation(storage) ==
  IF "locationData" \in DOMAIN storage
  THEN ParsePoint(storage["locationData"], 1).val
  ELSE [lat |-> ORIGIN_LOCATION.lat, lng |-> ORIGIN_LOCATION.lng]

\* loadMovementData that ignores what was saved
loadMovementData_forgets(storage) == <<>>

loadMovementData(storage) ==
  IF "movementData" \in DOMAIN storage
  THEN ParsePoints(storage["movementData"], 1).val
  ELSE <<>>

loadPlayerInventory(storage) ==
  IF "inventoryData" \in DOMAIN storage
  THEN ParseItems(storage["inventoryData"], 1).val
  ELSE <<>>

loadCacheData(storage) ==
  IF "cacheData" \in DOMAIN storage
  THEN ParseDict(storage["cacheData"])
  ELSE <<>>

(***************************************************************************)
(* The inventory transfer protocol (utils.ts:193-221)                      *)
(***************************************************************************)
\* transferItem that takes the first item (shift) instead of the last (pop)
transferItem_fifo(fromInventory, toInventory) ==
  IF Len(fromInventory) > 0
  THEN [from |-> Tail(fromInventory),
        to   |-> Append(toInventory, Head(fromInventory)),
        item |-> <<Head(fromInventory)>>]
  ELSE [from |-> fromInventory, to |-> toInventory, item |-> <<>>]

\* both inventories after transferItem, and the item returned (<<>>: null)
transferItem(fromInventory, toInventory) ==
  IF Len(fromInventory) > 0
  THEN LET item == fromInventory[Len(fromInventory)]
       IN  [from |-> SubSeq(fromInventory, 1, Len(fromInventory) - 1),
            to   |-> Append(toInventory, item),
            item |-> <<item>>]
  ELSE [from |-> fromInventory, to |-> toInventory, item |-> <<>>]

\* collectItemFromCache that saves whether or not an item was moved
collectItemFromCache_alwaysSave(cache, inventory, dict, storage, location, history) ==
  Bind(transferItem(cache.inventory, inventory), LAMBDA t :
  Bind([cache EXCEPT !.inventory = t.from], LAMBDA after :
  Bind(saveCacheState(dict, after), LAMBDA saved :
    [cache |-> after, inventory |-> t.to, dict |-> saved,
     storage |-> saveGameState(storage, location, history, t.to, saved),
     item |-> t.item])))

\* collectItemFromCache that calls saveGameState before saveCacheState
collectItemFromCache_gameStateFirst(cache, inventory, dict, storage, location, history) ==
  Bind(transferItem(cache.inventory, inventory), LAMBDA t :
  Bind([cache EXCEPT !.inventory = t.from], LAMBDA after :
    IF t.item # <<>>
    THEN [cache |-> after, inventory |-> t.to,
          dict |-> saveCacheState(dict, after),
          storage |-> saveGameState(storage, location, history, t.to, dict),
          item |-> t.item]
    ELSE [cache |-> after, inventory |-> t.to, dict |-> dict,
          storage |-> storage, item |-> t.item]))

\* the cache, player inventory, dictionary and storage after
\* collectItemFromCache(cache), and the item returned
collectItemFromCache(cache, inventory, dict, storage, location, history) ==
  Bind(transferItem(cache.inventory, inventory), LAMBDA t :
  Bind([cache EXCEPT !.inventory = t.from], LAMBDA after :
    IF t.item # <<>>
    THEN Bind(saveCacheState(dict, after), LAMBDA saved :
           [cache |-> after, inventory |-> t.to, dict |-> saved,
            storage |-> saveGameState(storage, location, history, t.to, saved),
            item |-> t.item])
    ELSE [cache |-> after, inventory |-> t.to, dict |-> dict,
          storage |-> storage, item |-> t.item]))

\* depositItemToCache that saves nothing
depositItemToCache_noSave(cache, inventory, dict, storage, location, history) ==
  Bind(transferItem(inventory, cache.inventory), LAMBDA t :
    [cache |-> [cache EXCEPT !.inventory = t.to], inventory |-> t.from,
     dict |-> dict, storage |-> storage, item |-> t.item])

\* the same for depositItemToCache(cache)
depositItemToCache(cache, inventory, dict, storage, location, history) ==
  Bind(transferItem(inventory, cache.inventory), LAMBDA t :
  Bind([cache EXCEPT !.inventory = t.to], LAMBDA after :
    IF t.item # <<>>
    THEN Bind(saveCacheState(dict, after), LAMBDA saved :
           [cache |-> after, inventory |-> t.from, dict |-> saved,
            storage |-> saveGameState(storage, location, history, t.from, saved),
            item |-> t.item])
    ELSE [cache |-> after, inventory |-> t.from, dict |-> dict,
          storage |-> storage, item |-> t.item]))

(***************************************************************************)
(* Caches on the map (utils.ts:310-345)                                    *)
(***************************************************************************)
\* the dictionary and the rectangles after spawnCache(cell)
spawnCache(state, cell) ==
  Bind(getOrCreateCache(state.dict, cell), LAMBDA got :
    [dict  |-> got.dict,
     rects |-> Append(state.rects, [cell |-> cell, cache |-> got.cache])])

WindowSide == 2 * CELL_VISIBILITY_RADIUS

\* the cell visited by iteration n of the two loops (i outer, j inner)
WindowCell(playerCell, n) ==
  [i |-> playerCell.i + (n \div WindowSide) - CELL_VISIBILITY_RADIUS,
   j |-> playerCell.j + (n % WindowSide) - CELL_VISIBILITY_RADIUS]

\* luck([i, j].toString()) < CACHE_SPAWN_CHANCE
isLucky(cell) == luck(PairKey(cell.i, cell.j)) * SpawnDen < SpawnNum * LuckRes

\* spawnCache for the iterations of todo, in increasing order
RECURSIVE spawnLoop(_, _, _)
spawnLoop(todo, playerCell, state) ==
  IF todo = {} THEN state
  ELSE LET n == CHOOSE n \in todo : \A m \in todo : n <= m
       IN  spawnLoop(todo \ {n}, playerCell,
                     spawnCache(state, WindowCell(playerCell, n)))

\* spawnCaches whose outer loop starts one row late, so that a cell of the
\* first row gets its cache from some positions and not from others
spawnCaches_skipsFirstRow(dict, shown, location) ==
  LET playerCell == getCellForPoint(location)
      lucky == {n \in WindowSide..(WindowSide * WindowSide - 1) :
                  isLucky(WindowCell(playerCell, n))}
  IN  spawnLoop(lucky, playerCell, [dict |-> dict, rects |-> shown])

\* the dictionary and the rectangles after spawnCaches()
spawnCaches(dict, shown, location) ==
  LET playerCell == getCellForPoint(location)
      lucky == {n \in 0..(WindowSide * WindowSide - 1) :
                  isLucky(WindowCell(playerCell, n))}
  IN  spawnLoop(lucky, playerCell, [dict |-> dict, rects |-> shown])

\* a refresh that first forgets the mementos of the cells out of sight
refreshCaches_forgetsUnseen(dict, location) == spawnCaches(<<>>, <<>>, location)

\* leafletMapService.clear(); spawnCaches()
refreshCaches(dict, location) == spawnCaches(dict, <<>>, location)

\* distanceMoved(point) > CELL_DEGREES, the distance measured from prev:
\* sqrt(latDiff^2 + lngDiff^2) exceeds CELL_DEGREES when one difference does
\* (the squares of which would not fit TLC's integers), or the squares do
movedFar(point, prev) ==
  LET latDiff == point.lat - prev.lat
      lngDiff == point.lng - prev.lng
  IN  \/ latDiff > CELL_DEGREES \/ latDiff < -CELL_DEGREES
      \/ lngDiff > CELL_DEGREES \/ lngDiff < -CELL_DEGREES
      \/ latDiff * latDiff + lngDiff * lngDiff > CELL_DEGREES * CELL_DEGREES

(***************************************************************************)
(* Inputs of the model                                                     *)
(***************************************************************************)
\* the four movement buttons (utils.ts:387-392)
Directions == {[x |-> 0, y |-> 1], [x |-> 0, y |-> -1],
               [x |-> -1, y |-> 0], [x |-> 1, y |-> 0]}

\* a point whose window holds CellA and CellB, and one half a cell north of it
PointP == [lat |-> 6 * Sub, lng |-> 7 * Sub]
PointQ == [lat |-> 6 * Sub + Sub \div 2, lng |-> 7 * Sub]

\* the positions the geolocation service reports
GeoPoints == {PointP, PointQ, ORIGIN_LOCATION}

Abs(n) == IF n < 0 THEN -n ELSE n

\* the points a button walk may reach: at most MaxWander steps from PointP
InArena(point) ==
  Abs(point.lat - PointP.lat) + Abs(point.lng - PointP.lng)
    <= MaxWander * CELL_DEGREES

\* no transfer was called
NoCall == [op |-> "none", item |-> <<>>]

\* no key was computed
NoKey == [cell |-> CellA, key |-> <<>>]

NoProbe == [cache |-> createCache(CellA), dict |-> <<>>, loaded |-> <<>>,
            done |-> FALSE]

(***************************************************************************)
(* Startup: the module-level code of utils.ts, run on page load            *)
(***************************************************************************)
Startup(storage) ==
  \E location \in {loadPlayerLocation(storage)} :
  \E spawned \in {spawnCaches(loadCacheData(storage), <<>>, location)} :
      /\ playerLocation' = location
      /\ movementHistory' = Append(loadMovementData(storage), location)
      /\ playerInventory' = loadPlayerInventory(storage)
      /\ mementoDictionary' = spawned.dict
      /\ rects' = spawned.rects
      /\ autoMoveOn' = FALSE
      /\ watchId' = 0
      /\ watches' = {}
      /\ nextWatch' = 1

Init ==
  /\ luckTable \in LuckTables
  /\ localStorage = NoStorage
  /\ \E spawned \in {spawnCaches(<<>>, <<>>, ORIGIN_LOCATION)} :
         /\ playerLocation = ORIGIN_LOCATION
         /\ movementHistory = <<ORIGIN_LOCATION>>
         /\ playerInventory = <<>>
         /\ mementoDictionary = spawned.dict
         /\ rects = spawned.rects
  /\ autoMoveOn = FALSE
  /\ watchId = 0
  /\ watches = {}
  /\ nextWatch = 1
  /\ ret = NoCall
  /\ keyA = NoKey
  /\ keyB = NoKey
  /\ probe = NoProbe

\* the page is reloaded: the program starts again from the durable storage
Restart ==
  /\ Len(loadMovementData(localStorage)) < MaxHistory
  /\ Startup(localStorage)
  /\ ret' = NoCall
  /\ UNCHANGED <<luckTable, localStorage, keyA, keyB, probe>>

(***************************************************************************)
(* Movement (utils.ts:347-383, 409-414)                                    *)
(***************************************************************************)
\* a movePlayerInDirection that makes the player drop what they carry
MoveButton_dropsItems(direction) ==
  LET location == [lat |-> playerLocation.lat + direction.y * CELL_DEGREES,
                   lng |-> playerLocation.lng + direction.x * CELL_DEGREES]
      history  == Append(movementHistory, location)
  IN  /\ Len(movementHistory) < MaxHistory
      /\ InArena(location)
      /\ \E spawned \in {refreshCaches(mementoDictionary, location)} :
           /\ mementoDictionary' = spawned.dict
           /\ rects' = spawned.rects
           /\ localStorage' = saveGameState(localStorage, location, history,
                                            <<>>, spawned.dict)
      /\ playerLocation' = location
      /\ movementHistory' = history
      /\ playerInventory' = <<>>
      /\ ret' = NoCall
      /\ UNCHANGED <<luckTable, autoMoveOn,
                     watchId, watches, nextWatch, keyA, keyB, probe>>

\* a movement button is clicked: movePlayerInDirection(direction)
MoveButton(direction) ==
  LET location == [lat |-> playerLocation.lat + direction.y * CELL_DEGREES,
                   lng |-> playerLocation.lng + direction.x * CELL_DEGREES]
      history  == Append(movementHistory, location)
  IN  /\ Len(movementHistory) < MaxHistory
      /\ InArena(location)
      /\ \E spawned \in {refreshCaches(mementoDictionary, location)} :
           /\ mementoDictionary' = spawned.dict
           /\ rects' = spawned.rects
           /\ localStorage' = saveGameState(localStorage, location, history,
                                            playerInventory, spawned.dict)
      /\ playerLocation' = location
      /\ movementHistory' = history
      /\ ret' = NoCall
      /\ UNCHANGED <<luckTable, playerInventory, autoMoveOn,
                     watchId, watches, nextWatch, keyA, keyB, probe>>

\* a registered watch reports a position: autoMove -> movePlayerToLocation.
\* prevPlayerLocation is written at the start of movePlayerToLocation and read
\* only by the distanceMoved that follows: it is the location before the move.
AutoMove(point) ==
  LET history == Append(movementHistory, point)
      far     == movedFar(point, playerLocation)
  IN  /\ watches # {}
      /\ Len(movementHistory) < MaxHistory
      /\ playerLocation' = point
      /\ movementHistory' = history
      /\ \E spawned \in {IF far THEN refreshCaches(mementoDictionary, point)
                          ELSE [dict |-> mementoDictionary, rects |-> rects]} :
           /\ mementoDictionary' = spawned.dict
           /\ rects' = spawned.rects
           /\ localStorage' = saveGameState(localStorage, point, history,
                                            playerInventory, spawned.dict)
      /\ ret' = NoCall
      /\ UNCHANGED <<luckTable, playerInventory, autoMoveOn, watchId, watches,
                     nextWatch, keyA, keyB, probe>>

(***************************************************************************)
(* The popup buttons of a displayed cache (utils.ts:242-256)               *)
(***************************************************************************)
Transfer(k, op, r) ==
  /\ rects' = [rects EXCEPT ![k].cache = r.cache]
  /\ playerInventory' = r.inventory
  /\ mementoDictionary' = r.dict
  /\ localStorage' = r.storage
  /\ ret' = [op |-> op, item |-> r.item]
  /\ UNCHANGED <<luckTable, playerLocation, movementHistory,
                 autoMoveOn, watchId, watches, nextWatch, keyA, keyB, probe>>

\* Collect is clicked in the popup of rectangle k
Collect(k) ==
  /\ Len(rects[k].cache.inventory) > 0 => Len(playerInventory) < MaxCarry
  /\ Transfer(k, "collect",
           collectItemFromCache(rects[k].cache, playerInventory, mementoDictionary,
                                localStorage, playerLocation, movementHistory))

\* Deposit is clicked in the popup of rectangle k
Deposit(k) ==
  /\ Len(playerInventory) > 0 => Len(rects[k].cache.inventory) < MaxStock
  /\ Transfer(k, "deposit",
           depositItemToCache(rects[k].cache, playerInventory, mementoDictionary,
                              localStorage, playerLocation, movementHistory))

(***************************************************************************)
(* Geolocation toggle and reset (utils.ts:404-455)                         *)
(***************************************************************************)
\* toggleAutoMove while the browser has handed out fewer than limit watches
ToggleAutoMoveUpTo(limit) ==
  /\ IF ~autoMoveOn
     THEN /\ nextWatch <= limit
          /\ autoMoveOn' = TRUE
          /\ watchId' = nextWatch
          /\ watches' = watches \cup {nextWatch}
          /\ nextWatch' = nextWatch + 1
          /\ movementHistory' = <<>>
     ELSE /\ autoMoveOn' = FALSE
          /\ watches' = watches \ {watchId}
          /\ UNCHANGED <<watchId, nextWatch, movementHistory>>
  /\ ret' = NoCall
  /\ UNCHANGED <<luckTable, localStorage, playerLocation,
                 playerInventory, mementoDictionary, rects, keyA, keyB, probe>>

ToggleAutoMove == ToggleAutoMoveUpTo(MaxWatches)

\* a reset that forgets to empty the memento dictionary
Reset_keepsDictionary ==
  LET location == [lat |-> ORIGIN_LOCATION.lat, lng |-> ORIGIN_LOCATION.lng]
  IN  /\ localStorage' = NoStorage
      /\ playerLocation' = location
      /\ movementHistory' = <<location>>
      /\ playerInventory' = <<>>
      /\ \E spawned \in {refreshCaches(mementoDictionary, location)} :
           /\ mementoDictionary' = spawned.dict
           /\ rects' = spawned.rects
      /\ autoMoveOn' = FALSE
      /\ ret' = NoCall
      /\ UNCHANGED <<luckTable, watchId, watches, nextWatch,
                     keyA, keyB, probe>>

Reset ==
  LET location == [lat |-> ORIGIN_LOCATION.lat, lng |-> ORIGIN_LOCATION.lng]
  IN  /\ localStorage' = NoStorage
      /\ playerLocation' = location
      /\ movementHistory' = <<location>>
      /\ playerInventory' = <<>>
      /\ \E spawned \in {refreshCaches(<<>>, location)} :
           /\ mementoDictionary' = spawned.dict
           /\ rects' = spawned.rects
      /\ autoMoveOn' = FALSE
      /\ ret' = NoCall
      /\ UNCHANGED <<luckTable, watchId, watches, nextWatch,
                     keyA, keyB, probe>>

Next ==
  \/ \E direction \in Directions : MoveButton(direction)
  \/ \E point \in GeoPoints : AutoMove(point)
  \/ \E k \in 1..Len(rects) : Collect(k)
  \/ \E k \in 1..Len(rects) : Deposit(k)
  \/ ToggleAutoMove
  \/ Reset
  \/ Restart

Spec == Init /\ [][Next]_vars

(***************************************************************************)
(* The tool panel: the same program in a world with one cache, in the cell *)
(* of the origin, where the geolocation toggle may register one more watch *)
(***************************************************************************)
CellO == getCellForPoint(ORIGIN_LOCATION)

ToolWorlds == {LuckTableOf({CellO}, n) : n \in 0..MaxRoll}

InitTools ==
  /\ luckTable \in ToolWorlds
  /\ localStorage = NoStorage
  /\ \E spawned \in {spawnCaches(<<>>, <<>>, ORIGIN_LOCATION)} :
         /\ playerLocation = ORIGIN_LOCATION
         /\ movementHistory = <<ORIGIN_LOCATION>>
         /\ playerInventory = <<>>
         /\ mementoDictionary = spawned.dict
         /\ rects = spawned.rects
  /\ autoMoveOn = FALSE
  /\ watchId = 0
  /\ watches = {}
  /\ nextWatch = 1
  /\ ret = NoCall
  /\ keyA = NoKey
  /\ keyB = NoKey
  /\ probe = NoProbe

NextTools ==
  \/ \E direction \in Directions : MoveButton(direction)
  \/ \E point \in GeoPoints : AutoMove(point)
  \/ \E k \in 1..Len(rects) : Collect(k)
  \/ \E k \in 1..Len(rects) : Deposit(k)
  \/ ToggleAutoMoveUpTo(MaxWatches + 1)
  \/ Reset
  \/ Restart

SpecTools == InitTools /\ [][NextTools]_vars

(***************************************************************************)
(* The edge of sight: the same program in a world whose caches lie in the  *)
(* outermost rows of the windows around the reported positions             *)
(***************************************************************************)
\* the southernmost row seen from PointP, and the northernmost seen from PointQ
CellE == [i |-> getCellForPoint(PointP).i - CELL_VISIBILITY_RADIUS,
          j |-> getCellForPoint(PointP).j]
CellF == [i |-> getCellForPoint(PointQ).i + CELL_VISIBILITY_RADIUS - 1,
          j |-> getCellForPoint(PointQ).j]

SightWorlds == {LuckTableOf({CellE, CellF}, n) : n \in 0..MaxRoll}

InitSight ==
  /\ luckTable \in SightWorlds
  /\ localStorage = NoStorage
  /\ \E spawned \in {spawnCaches(<<>>, <<>>, ORIGIN_LOCATION)} :
         /\ playerLocation = ORIGIN_LOCATION
         /\ movementHistory = <<ORIGIN_LOCATION>>
         /\ playerInventory = <<>>
         /\ mementoDictionary = spawned.dict
         /\ rects = spawned.rects
  /\ autoMoveOn = FALSE
  /\ watchId = 0
  /\ watches = {}
  /\ nextWatch = 1
  /\ ret = NoCall
  /\ keyA = NoKey
  /\ keyB = NoKey
  /\ probe = NoProbe

NextSight ==
  \/ \E direction \in Directions : MoveButton(direction)
  \/ \E point \in GeoPoints : AutoMove(point)
  \/ \E k \in 1..Len(rects) : Collect(k)
  \/ \E k \in 1..Len(rects) : Deposit(k)
  \/ ToggleAutoMove
  \/ Reset
  \/ Restart

SpecSight == InitSight /\ [][NextSight]_vars

(***************************************************************************)
(* getMementoKey on its own: two cells are drawn and their keys computed   *)
(***************************************************************************)
KeyCoords == (-MaxCoord)..MaxCoord

KeyCells == [i : KeyCoords, j : KeyCoords]

\* the game is at rest in a world without caches
GameAtRest ==
  /\ luckTable = LuckTableOf({}, 0)
  /\ localStorage = NoStorage
  /\ playerLocation = ORIGIN_LOCATION
  /\ movementHistory = <<ORIGIN_LOCATION>>
  /\ playerInventory = <<>>
  /\ mementoDictionary = <<>>
  /\ rects = <<>>
  /\ autoMoveOn = FALSE
  /\ watchId = 0
  /\ watches = {}
  /\ nextWatch = 1
  /\ ret = NoCall

InitKey ==
  /\ GameAtRest
  /\ keyA \in [cell : KeyCells, key : {<<>>}]
  /\ keyB \in [cell : KeyCells, key : {<<>>}]
  /\ probe = NoProbe

ComputeKeys ==
  /\ keyA.key = <<>>
  /\ keyA' = [keyA EXCEPT !.key = getMementoKey(keyA.cell)]
  /\ keyB' = [keyB EXCEPT !.key = getMementoKey(keyB.cell)]
  /\ UNCHANGED <<gameVars, probe>>

NextKey == ComputeKeys

SpecKey == InitKey /\ [][NextKey]_vars

(***************************************************************************)
(* saveCacheState and getSavedCache on their own: a cache is drawn, saved  *)
(* into a dictionary and loaded back                                       *)
(***************************************************************************)
ProbeCells == {CellA, CellB, CellC}

ProbeItems == [type : {ITEM_TYPES[k] : k \in 1..Len(ITEM_TYPES)},
               origin : {CellA, CellC}, serial : 0..MaxRoll]

ProbeInventories ==
  UNION {[1..n -> ProbeItems] : n \in 0..MaxStock}

ProbeCaches ==
  [location : ProbeCells, numItems : 0..MaxRoll, inventory : ProbeInventories]

\* the dictionary is empty, or holds the memento of a generated cache at a cell
ProbeDicts ==
  {<<>>} \cup {saveCacheState(<<>>, [createCache(c) EXCEPT !.numItems = 1])
                 : c \in ProbeCells}

InitMemento ==
  /\ GameAtRest
  /\ keyA = NoKey
  /\ keyB = NoKey
  /\ probe \in [cache : ProbeCaches, dict : ProbeDicts, loaded : {<<>>},
                done : {FALSE}]

SaveThenLoad ==
  LET saved == saveCacheState(probe.dict, probe.cache)
  IN  /\ ~probe.done
      /\ probe' = [probe EXCEPT !.dict = saved,
                                !.loaded = getSavedCache(saved, probe.cache.location),
                                !.done = TRUE]
      /\ UNCHANGED <<gameVars, keyA, keyB>>

NextMemento == SaveThenLoad

SpecMemento == InitMemento /\ [][NextMemento]_vars

(***************************************************************************)
(* Startup on its own: the page is loaded over a durable storage in which  *)
(* each of the four keys is absent, as saved, or cut short                 *)
(***************************************************************************)
\* JSON.parse(s) does not throw: s is one object or array whose brackets
\* close, read from position p at nesting depth, inside a string literal
\* or not
RECURSIVE JSONScan(_, _, _, _)
JSONScan(s, p, depth, inString) ==
  IF p > Len(s) THEN depth = 0 /\ ~inString /\ Len(s) > 0
  ELSE IF s[p] = "\"" THEN depth > 0 /\ JSONScan(s, p + 1, depth, ~inString)
  ELSE IF inString THEN JSONScan(s, p + 1, depth, inString)
  ELSE IF s[p] \in {"{", "["}
  THEN (depth > 0 \/ p = 1) /\ JSONScan(s, p + 1, depth + 1, inString)
  ELSE IF s[p] \in {"}", "]"}
  THEN depth > 0 /\ JSONScan(s, p + 1, depth - 1, inString)
  ELSE depth > 0 /\ JSONScan(s, p + 1, depth, inString)

IsJSON(s) == JSONScan(s, 1, 0, FALSE)

\* a stored string that lost its end
Truncated(s) == SubSeq(s, 1, Len(s) - 1)

DurableKeys == {"locationData", "movementData", "inventoryData", "cacheData"}

LoadLocations == {PointP, PointQ}

LoadHistories == {<<>>, <<PointP>>}

LoadInventories ==
  {<<>>, <<[type |-> ITEM_TYPES[1], origin |-> CellA, serial |-> 0],
           [type |-> ITEM_TYPES[2], origin |-> CellC, serial |-> 1]>>}

\* no memento, the memento of the emptied cache of CellA, and that memento
\* cut short
LoadDicts ==
  {<<>>,
   saveCacheState(<<>>, [createCache(CellA) EXCEPT !.numItems = 1]),
   <<<<getMementoKey(CellA),
       Truncated(toMemento([createCache(CellA) EXCEPT !.numItems = 1]))>>>>}

\* the storage in which the keys of kept are left of a saved game state, the
\* values of the keys of corrupt cut short
StorageOf(saved) ==
  [key \in saved.kept |->
     IF key \in saved.corrupt
     THEN Truncated(saveGameState(NoStorage, saved.location, saved.history,
                                  saved.inventory, saved.dict)[key])
     ELSE saveGameState(NoStorage, saved.location, saved.history,
                        saved.inventory, saved.dict)[key]]

\* the page is not loaded yet
InitLoad ==
  /\ luckTable \in LuckTables
  /\ probe \in [location : LoadLocations, history : LoadHistories,
                inventory : LoadInventories, dict : LoadDicts,
                kept : SUBSET DurableKeys,
                corrupt : {{}} \cup {{key} : key \in DurableKeys},
                done : {FALSE}, crashed : {FALSE}]
  /\ probe.corrupt \subseteq probe.kept
  /\ localStorage = StorageOf(probe)
  /\ playerLocation = ORIGIN_LOCATION
  /\ movementHistory = <<>>
  /\ playerInventory = <<>>
  /\ mementoDictionary = <<>>
  /\ rects = <<>>
  /\ autoMoveOn = FALSE
  /\ watchId = 0
  /\ watches = {}
  /\ nextWatch = 1
  /\ ret = NoCall
  /\ keyA = NoKey
  /\ keyB = NoKey

\* a JSON.parse of the module initialisation throws: one of the four loaders
\* (utils.ts:66, 75, 106, 169), or the fromMemento of a displayed cell whose
\* key has a memento (utils.ts:331)
StartupThrows(storage) ==
  \/ \E key \in DurableKeys \cap DOMAIN storage : ~IsJSON(storage[key])
  \/ /\ \A key \in DurableKeys \cap DOMAIN storage : IsJSON(storage[key])
     /\ \E n \in 0..(WindowSide * WindowSide - 1) :
          \E cell \in {WindowCell(getCellForPoint(loadPlayerLocation(storage)),
                                  n)} :
            /\ isLucky(cell)
            /\ DictHas(loadCacheData(storage), getMementoKey(cell))
            /\ DictGet(loadCacheData(storage), getMementoKey(cell)) # <<>>
            /\ ~IsJSON(DictGet(loadCacheData(storage), getMementoKey(cell)))

\* the page is loaded.  An exception thrown by the module initialisation is
\* not caught: the module is abandoned, no handler is ever installed and the
\* state it had built so far is out of reach
Load ==
  /\ ~probe.done
  /\ IF StartupThrows(localStorage)
     THEN /\ probe' = [probe EXCEPT !.done = TRUE, !.crashed = TRUE]
          /\ UNCHANGED <<playerLocation, movementHistory, playerInventory,
                         mementoDictionary, rects, autoMoveOn, watchId,
                         watches, nextWatch>>
     ELSE /\ probe' = [probe EXCEPT !.done = TRUE]
          /\ Startup(localStorage)
  /\ ret' = NoCall
  /\ UNCHANGED <<luckTable, localStorage, keyA, keyB>>

NextLoad == Load

SpecLoad == InitLoad /\ [][NextLoad]_vars

(***************************************************************************)
(* The world on its own: a world is created and asked for the cells of     *)
(* points and for the bounds of these cells                                *)
(***************************************************************************)
WorldCoords == (-(Sub + 1))..(Sub + 1)

WorldPoints == [lat : WorldCoords, lng : (-1)..Sub]

\* createWorld(): the Map is empty, no call was made
InitWorld ==
  /\ GameAtRest
  /\ keyA = NoKey
  /\ keyB = NoKey
  /\ probe = [knownCells |-> <<>>, calls |-> <<>>]

\* getCellForPoint(point), then getCellBounds of the cell returned
Ask(point) ==
  /\ Len(probe.calls) < MaxCalls
  /\ \E got \in {getCellForPointIn(probe.knownCells, point)} :
       probe' = [knownCells |-> got.knownCells,
                 calls |-> Append(probe.calls,
                                  [point  |-> point,
                                   cell   |-> got.cell,
                                   bounds |-> getCellBounds(got.cell)])]
  /\ UNCHANGED <<gameVars, keyA, keyB>>

NextWorld == \E point \in WorldPoints : Ask(point)

SpecWorld == InitWorld /\ [][NextWorld]_vars

(***************************************************************************)
(* Cache generation on its own: in a world drawn at the start the caches   *)
(* of the lucky cells are spawned one at a time, in any order (the order   *)
(* the routes of a player may produce), from an empty dictionary           *)
(***************************************************************************)
CellD == [i |-> 2, j |-> 3]

GenCells == {CellA, CellB, CellC, CellD}

\* the numbers of items the caches of a world roll: the smallest ones and the
\* largest the RNG can give
GenRolls == (0..MaxRoll) \cup {MAX_CACHE_ITEMS - 1}

GenWorlds ==
  {LuckTableOf(S, n) : S \in (SUBSET GenCells) \ {{}}, n \in GenRolls}

InitGen ==
  /\ luckTable \in GenWorlds
  /\ localStorage = NoStorage
  /\ playerLocation = ORIGIN_LOCATION
  /\ movementHistory = <<ORIGIN_LOCATION>>
  /\ playerInventory = <<>>
  /\ mementoDictionary = <<>>
  /\ rects = <<>>
  /\ autoMoveOn = FALSE
  /\ watchId = 0
  /\ watches = {}
  /\ nextWatch = 1
  /\ ret = NoCall
  /\ keyA = NoKey
  /\ keyB = NoKey
  /\ probe = NoProbe

\* spawnCache(cell) for a lucky cell that is not displayed yet
SpawnOne(cell) ==
  /\ isLucky(cell)
  /\ \A k \in 1..Len(rects) : rects[k].cell # cell
  /\ \E spawned \in {spawnCache([dict |-> mementoDictionary, rects |-> rects],
                                 cell)} :
       /\ mementoDictionary' = spawned.dict
       /\ rects' = spawned.rects
  /\ UNCHANGED <<luckTable, localStorage, playerLocation, movementHistory,
                 playerInventory, autoMoveOn, watchId, watches, nextWatch,
                 ret, keyA, keyB, probe>>

NextGen == \E cell \in GenCells : SpawnOne(cell)

SpecGen == InitGen /\ [][NextGen]_vars

(***************************************************************************)
(* The memento store on its own: in a world where every cell asked for     *)
(* hosts a cache, getSavedCache and getOrCreateCache are called for cells  *)
(* in any order, from an empty dictionary; probe holds the last call       *)
(***************************************************************************)
StoreCells == GenCells

StoreWorlds == {LuckTableOf(StoreCells, n) : n \in 0..MaxRoll}

NoLookup == [op |-> "none", cell |-> CellA, before |-> <<>>, got |-> <<>>]

InitStore ==
  /\ luckTable \in StoreWorlds
  /\ localStorage = NoStorage
  /\ playerLocation = ORIGIN_LOCATION
  /\ movementHistory = <<ORIGIN_LOCATION>>
  /\ playerInventory = <<>>
  /\ mementoDictionary = <<>>
  /\ rects = <<>>
  /\ autoMoveOn = FALSE
  /\ watchId = 0
  /\ watches = {}
  /\ nextWatch = 1
  /\ ret = NoCall
  /\ keyA = NoKey
  /\ keyB = NoKey
  /\ probe = NoLookup

\* getSavedCache(cell): reads the dictionary and writes nothing
GetSaved(cell) ==
  /\ probe' = [op     |-> "getSavedCache",
               cell   |-> cell,
               before |-> mementoDictionary,
               got    |-> getSavedCache(mementoDictionary, cell)]
  /\ UNCHANGED <<gameVars, keyA, keyB>>

\* getOrCreateCache(cell)
GetOrCreate(cell) ==
  /\ \E made \in {getOrCreateCache(mementoDictionary, cell)} :
       /\ mementoDictionary' = made.dict
       /\ probe' = [op     |-> "getOrCreateCache",
                    cell   |-> cell,
                    before |-> mementoDictionary,
                    got    |-> <<made.cache>>]
  /\ UNCHANGED <<luckTable, localStorage, playerLocation, movementHistory,
                 playerInventory, rects, autoMoveOn, watchId, watches,
                 nextWatch, ret, keyA, keyB>>

NextStore ==
  \E cell \in StoreCells :
    \/ GetSaved(cell)
    \/ GetOrCreate(cell)

SpecStore == InitStore /\ [][NextStore]_vars

(***************************************************************************)
(* The earlier program (main.ts:1-358): a cache is a record returned by    *)
(* createCache together with the closures toMemento and fromMemento over   *)
(* the locals location, numItems and cacheItems of that call; the items of *)
(* all the caches are numbered by the one counter serialNum, kept in probe *)
(***************************************************************************)
\* the record returned (location, numItems, cacheItems), the locals the
\* closures see (captured), and whether the field cacheItems and the local
\* cacheItems are still one array
main_createCache(cell) ==
  [location  |-> cell, numItems |-> 0, cacheItems |-> <<>>,
   captured  |-> [location |-> cell, numItems |-> 0, cacheItems |-> <<>>],
   sameArray |-> TRUE]

\* cache.cacheItems.push or pop: the array of the field becomes items
main_setCacheItems(cache, items) ==
  [cache EXCEPT !.cacheItems = items,
                !.captured.cacheItems = IF cache.sameArray THEN items ELSE @]

\* cache.toMemento(): serializes the locals
main_toMemento(cache) ==
  <<"{", "\"location\":">> \o CellJSON(cache.captured.location)
    \o <<",", "\"numItems\":">> \o NumToString(cache.captured.numItems)
    \o <<",", "\"cacheItems\":">> \o ItemsJSON(cache.captured.cacheItems)
    \o <<"}">>

\* cache.fromMemento(memento): assigns the locals; the local cacheItems is
\* now another array than the one of the field
main_fromMemento(cache, memento) ==
  Bind(ParseCell(memento, 3), LAMBDA location :
  Bind(ReadInt(memento, location.next + 2), LAMBDA numItems :
  Bind(ParseItems(memento, numItems.next + 2), LAMBDA cacheItems :
    [cache EXCEPT !.captured = [location   |-> location.val,
                                numItems   |-> numItems.val,
                                cacheItems |-> cacheItems.val],
                  !.sameArray = FALSE])))

\* setNumItems(cache): writes the field numItems
main_setNumItems(cache) ==
  [cache EXCEPT !.numItems =
     (luck(InitialValueKey(cache.location.i, cache.location.j)) * MAX_CACHE_ITEMS)
        \div LuckRes]

\* getRandomItemType() while the counter is serialNum
main_getRandomItemType(serialNum) ==
  ITEM_TYPES[((luck(NumToString(serialNum)) * Len(ITEM_TYPES)) \div LuckRes) + 1]

\* fillCache(cache) while the counter is serialNum: the cache and the counter
\* it leaves
main_fillCache(cache, serialNum) ==
  Bind(main_setNumItems(cache), LAMBDA rolled :
    [cache |-> main_setCacheItems(rolled, rolled.cacheItems \o
                 [k \in 1..rolled.numItems |->
                    [type   |-> main_getRandomItemType(serialNum + k - 1),
                     origin |-> rolled.location,
                     serial |-> serialNum + k - 1]]),
     serialNum |-> serialNum + rolled.numItems])

\* <<cache>>, or <<>> for null
main_getSavedCache(dict, cell) ==
  Bind(getMementoKey(cell), LAMBDA key :
    IF DictHas(dict, key) /\ DictGet(dict, key) # <<>>
    THEN <<main_fromMemento(main_createCache(cell), DictGet(dict, key))>>
    ELSE <<>>)

main_saveCacheState(dict, cache) ==
  DictPut(dict, getMementoKey(cache.location), main_toMemento(cache))

\* spawnCache(cell): state is the dictionary, the rectangles and the counter
main_spawnCache(state, cell) ==
  Bind(main_getSavedCache(state.dict, cell), LAMBDA saved :
    IF saved = <<>>
    THEN Bind(main_fillCache(main_createCache(cell), state.serialNum),
              LAMBDA filled :
                [dict      |-> main_saveCacheState(state.dict, filled.cache),
                 rects     |-> Append(state.rects,
                                      [cell |-> cell, cache |-> filled.cache]),
                 serialNum |-> filled.serialNum])
    ELSE [dict      |-> state.dict,
          rects     |-> Append(state.rects, [cell |-> cell, cache |-> saved[1]]),
          serialNum |-> state.serialNum])

RECURSIVE main_spawnLoop(_, _, _)
main_spawnLoop(todo, originCell, state) ==
  IF todo = {} THEN state
  ELSE LET n == CHOOSE n \in todo : \A m \in todo : n <= m
       IN  main_spawnLoop(todo \ {n}, originCell,
                          main_spawnCache(state, WindowCell(originCell, n)))

\* clearCaches(); spawnCaches(). The loops run around ORIGIN_LOCATION, which
\* is the object that playerLocation names and the move buttons change.
main_spawnCaches(dict, serialNum, location) ==
  LET originCell == getCellForPoint(location)
      lucky == {n \in 0..(WindowSide * WindowSide - 1) :
                  isLucky(WindowCell(originCell, n))}
  IN  main_spawnLoop(lucky, originCell,
                     [dict |-> dict, rects |-> <<>>, serialNum |-> serialNum])

\* the cache-bearing cells of the modelled worlds: the cell of the classroom,
\* one that comes into sight a step to the north and one a step to the south
CellN == [i |-> CellO.i + CELL_VISIBILITY_RADIUS, j |-> CellO.j]
CellS == [i |-> CellO.i - CELL_VISIBILITY_RADIUS - 1, j |-> CellO.j]

MainCells == {CellO, CellN, CellS}

\* the RNG under which the cells of MainCells host a cache, each rolls n
\* items, and the item made while the counter is s is of type
\* s mod |ITEM_TYPES|
MainLuckTableOf(n) ==
  LET keys == {PairKey(c.i, c.j) : c \in MainCells}
                \cup {InitialValueKey(c.i, c.j) : c \in MainCells}
                \cup {NumToString(s) : s \in 0..(3 * n - 1)}
  IN  [key \in keys |->
         IF \E c \in MainCells : key = PairKey(c.i, c.j) THEN 0
         ELSE IF \E c \in MainCells : key = InitialValueKey(c.i, c.j)
         THEN LuckFor(n, MAX_CACHE_ITEMS)
         ELSE LuckFor((CHOOSE s \in 0..(3 * n - 1) : key = NumToString(s))
                         % Len(ITEM_TYPES), Len(ITEM_TYPES))]

MainWorlds == {MainLuckTableOf(n) : n \in 0..MaxRoll}

InitMain ==
  /\ luckTable \in MainWorlds
  /\ localStorage = NoStorage
  /\ \E spawned \in {main_spawnCaches(<<>>, 0, ORIGIN_LOCATION)} :
         /\ mementoDictionary = spawned.dict
         /\ rects = spawned.rects
         /\ probe = [serialNum |-> spawned.serialNum]
  /\ playerLocation = ORIGIN_LOCATION
  /\ movementHistory = <<ORIGIN_LOCATION>>
  /\ playerInventory = <<>>
  /\ autoMoveOn = FALSE
  /\ watchId = 0
  /\ watches = {}
  /\ nextWatch = 1
  /\ ret = NoCall
  /\ keyA = NoKey
  /\ keyB = NoKey

\* a movement button is clicked: the location changes by one cell, then
\* refreshMap()
MainMove(direction) ==
  LET location == [lat |-> playerLocation.lat + direction.y * CELL_DEGREES,
                   lng |-> playerLocation.lng + direction.x * CELL_DEGREES]
  IN  /\ Abs(location.lat - ORIGIN_LOCATION.lat)
            + Abs(location.lng - ORIGIN_LOCATION.lng) <= MaxWander * CELL_DEGREES
      /\ playerLocation' = location
      /\ \E spawned \in {main_spawnCaches(mementoDictionary, probe.serialNum,
                                           location)} :
           /\ mementoDictionary' = spawned.dict
           /\ rects' = spawned.rects
           /\ probe' = [serialNum |-> spawned.serialNum]
      /\ ret' = NoCall
      /\ UNCHANGED <<luckTable, localStorage, movementHistory, playerInventory,
                     autoMoveOn, watchId, watches, nextWatch, keyA, keyB>>

\* Collect is clicked in the popup of rectangle k
MainCollect(k) ==
  /\ Len(rects[k].cache.cacheItems) > 0
  /\ Len(playerInventory) < MaxCarry
  /\ \E after \in {main_setCacheItems(rects[k].cache,
                                       Front(rects[k].cache.cacheItems))} :
       /\ rects' = [rects EXCEPT ![k].cache = after]
       /\ mementoDictionary' = main_saveCacheState(mementoDictionary, after)
  /\ playerInventory' = Append(playerInventory, Last(rects[k].cache.cacheItems))
  /\ ret' = [op |-> "collect", item |-> <<Last(rects[k].cache.cacheItems)>>]
  /\ UNCHANGED <<luckTable, localStorage, playerLocation, movementHistory,
                 autoMoveOn, watchId, watches, nextWatch, keyA, keyB, probe>>

\* Deposit is clicked in the popup of rectangle k
MainDeposit(k) ==
  /\ Len(playerInventory) > 0
  /\ Len(rects[k].cache.cacheItems) < MaxStock
  /\ \E after \in {main_setCacheItems(rects[k].cache,
                        Append(rects[k].cache.cacheItems, Last(playerInventory)))} :
       /\ rects' = [rects EXCEPT ![k].cache = after]
       /\ mementoDictionary' = main_saveCacheState(mementoDictionary, after)
  /\ playerInventory' = Front(playerInventory)
  /\ ret' = [op |-> "deposit", item |-> <<Last(playerInventory)>>]
  /\ UNCHANGED <<luckTable, localStorage, playerLocation, movementHistory,
                 autoMoveOn, watchId, watches, nextWatch, keyA, keyB, probe>>

NextMain ==
  \/ \E direction \in Directions : MainMove(direction)
  \/ \E k \in 1..Len(rects) : MainCollect(k)
  \/ \E k \in 1..Len(rects) : MainDeposit(k)

SpecMain == InitMain /\ [][NextMain]_vars

(***************************************************************************)
(* Properties                                                              *)
(***************************************************************************)

\* the cache a memento stands for
CacheOf(memento) == fromMemento(createCache(CellA), memento)

\* C1: getMementoKey is injective: two distinct cells, with multi-digit and
\* negative coordinates among them, never get the same key.
C1_KeyInjective ==
  (keyA.key # <<>> /\ keyB.key # <<>> /\ keyA.cell # keyB.cell)
    => keyA.key # keyB.key

\* C2: saving a cache and loading it back under its location gives a cache
\* equal to the original in location, numItems and the whole ordered
\* inventory, whatever the dictionary held before.
C2_RoundTrip == probe.done => probe.loaded = <<probe.cache>>

\* a cache with two items, one of them from another cell, was saved and loaded
C2_Witness ==
  /\ probe.done
  /\ Len(probe.cache.inventory) = 2
  /\ \E k \in 1..2 : probe.cache.inventory[k].origin # probe.cache.location
  /\ probe.cache.inventory[1] # probe.cache.inventory[2]
  /\ probe.loaded = <<probe.cache>>

\* C3: between events every displayed cache equals the memento stored under
\* the key of its cell, and no two displayed caches stand for the same cell.
C3_LiveCacheIsMemento ==
  /\ \A k \in 1..Len(rects) :
       LET key == getMementoKey(rects[k].cell)
       IN  /\ DictHas(mementoDictionary, key)
           /\ CacheOf(DictGet(mementoDictionary, key)) = rects[k].cache
  /\ \A k, m \in 1..Len(rects) :
       k # m => /\ rects[k].cell # rects[m].cell
                /\ rects[k].cache.location # rects[m].cache.location

\* C4: a collect on a cache with a non-empty inventory removes the last item
\* of the cache, appends it to the player inventory and returns it; the other
\* items of both inventories keep their order.
C4_CollectLIFO ==
  [][\A k \in 1..Len(rects) :
       (Collect(k) /\ Len(rects[k].cache.inventory) > 0)
         => /\ rects'[k].cache.inventory = Front(rects[k].cache.inventory)
            /\ playerInventory' =
                 Append(playerInventory, Last(rects[k].cache.inventory))
            /\ ret' = [op |-> "collect",
                       item |-> <<Last(rects[k].cache.inventory)>>]]_vars

\* a collect has just moved an item behind another one the player carried,
\* out of a cache that keeps an item
C4_Witness ==
  /\ ret.op = "collect"
  /\ ret.item # <<>>
  /\ Len(playerInventory) = 2
  /\ Last(playerInventory) = ret.item[1]
  /\ \E k \in 1..Len(rects) : Len(rects[k].cache.inventory) > 0

\* C5: a deposit with a non-empty player inventory moves the last item of the
\* player to the end of the cache inventory, and saves the cache memento and
\* the whole game state as a collect does.
C5_DepositLIFO ==
  [][\A k \in 1..Len(rects) :
       (Deposit(k) /\ Len(playerInventory) > 0)
         => /\ playerInventory' = Front(playerInventory)
            /\ rects'[k].cache.inventory =
                 Append(rects[k].cache.inventory, Last(playerInventory))
            /\ ret' = [op |-> "deposit", item |-> <<Last(playerInventory)>>]
            /\ DictGet(mementoDictionary', getMementoKey(rects[k].cache.location))
                 = toMemento(rects'[k].cache)
            /\ localStorage' =
                 [locationData  |-> PointJSON(playerLocation),
                  movementData  |-> PointsJSON(movementHistory),
                  inventoryData |-> ItemsJSON(playerInventory'),
                  cacheData     |-> DictJSON(mementoDictionary')]]_vars

\* a deposit has just put an item on top of another one in a cache, and the
\* player keeps an item
C5_Witness ==
  /\ ret.op = "deposit"
  /\ ret.item # <<>>
  /\ Len(playerInventory) > 0
  /\ \E k \in 1..Len(rects) :
       /\ Len(rects[k].cache.inventory) = 2
       /\ Last(rects[k].cache.inventory) = ret.item[1]

\* C6: a collect on a cache with an empty inventory, and a deposit with an
\* empty player inventory, return null and change neither inventory, nor the
\* memento dictionary, nor the durable storage.
C6_EmptySourceNoOp ==
  [][\A k \in 1..Len(rects) :
       /\ (Collect(k) /\ Len(rects[k].cache.inventory) = 0)
            => /\ ret' = [op |-> "collect", item |-> <<>>]
               /\ UNCHANGED <<rects, playerInventory, mementoDictionary,
                              localStorage>>
       /\ (Deposit(k) /\ Len(playerInventory) = 0)
            => /\ ret' = [op |-> "deposit", item |-> <<>>]
               /\ UNCHANGED <<rects, playerInventory, mementoDictionary,
                              localStorage>>]_vars

\* a collect on an empty cache has just returned null while the durable
\* storage is behind the program's state
C6_Witness ==
  /\ ret = [op |-> "collect", item |-> <<>>]
  /\ \E k \in 1..Len(rects) : Len(rects[k].cache.inventory) = 0
  /\ "movementData" \in DOMAIN localStorage
  /\ localStorage["movementData"] # PointsJSON(movementHistory)

\* C7: when a successful collect completes, the durable cacheData holds,
\* under the key of the cache, the inventory after the transfer, and the
\* durable inventoryData holds the player inventory after the transfer.
C7_CollectIsDurable ==
  [][\A k \in 1..Len(rects) :
       (Collect(k) /\ Len(rects[k].cache.inventory) > 0)
         => /\ "cacheData" \in DOMAIN localStorage'
            /\ "inventoryData" \in DOMAIN localStorage'
            /\ LET stored == ParseDict(localStorage'["cacheData"])
                   key    == getMementoKey(rects[k].cache.location)
               IN  /\ DictHas(stored, key)
                   /\ CacheOf(DictGet(stored, key)).inventory
                        = rects'[k].cache.inventory
            /\ ParseItems(localStorage'["inventoryData"], 1).val
                 = playerInventory']_vars

\* a collect has just emptied a cache, and the storage holds both sides
C7_Witness ==
  /\ ret.op = "collect"
  /\ ret.item # <<>>
  /\ "cacheData" \in DOMAIN localStorage
  /\ ParseItems(localStorage["inventoryData"], 1).val = playerInventory
  /\ \E k \in 1..Len(rects) :
       /\ rects[k].cache.inventory = <<>>
       /\ rects[k].cache.numItems > 0
       /\ CacheOf(DictGet(ParseDict(localStorage["cacheData"]),
                          getMementoKey(rects[k].cache.location))).inventory = <<>>

\* the displayed caches of the next state come out of getOrCreateCache calls
\* made on the dictionary before: each cell that had a memento shows the state
\* of that memento, and the memento is still the same
ShowsSavedState(before) ==
  \A k \in 1..Len(rects') :
    LET key == getMementoKey(rects'[k].cell)
    IN  DictHas(before, key)
          => /\ rects'[k].cache = CacheOf(DictGet(before, key))
             /\ DictHas(mementoDictionary', key)
             /\ DictGet(mementoDictionary', key) = DictGet(before, key)

\* a move that refreshes the caches
RefreshingMove ==
  \/ \E direction \in Directions : MoveButton(direction)
  \/ \E point \in GeoPoints : AutoMove(point) /\ movedFar(point, playerLocation)

\* C8: once a cell has a memento, every later getOrCreateCache for the cell
\* (moves, refreshes and restarts, no reset) returns the state of the latest
\* memento saved under the cell's key and does not regenerate it: a cache the
\* player emptied is still empty when the player comes back.
C8_NeverRegenerated ==
  [][(RefreshingMove \/ Restart) => ShowsSavedState(mementoDictionary)]_vars

\* the player has just come back from the origin to a cache emptied earlier
C8_Witness ==
  /\ ret = NoCall
  /\ movementHistory = <<ORIGIN_LOCATION, PointP>>
  /\ playerLocation = PointP
  /\ "movementData" \in DOMAIN localStorage
  /\ localStorage["movementData"] = PointsJSON(movementHistory)
  /\ \E k \in 1..Len(rects) :
       /\ rects[k].cache.inventory = <<>>
       /\ Len(fillCache(createCache(rects[k].cell)).inventory) > 0

\* the displayed caches of the next state come out of getOrCreateCache calls
\* made on the dictionary before: each cell that had no memento now has one,
\* and it deserialises to the cache returned
SavesGeneratedState(before) ==
  \A k \in 1..Len(rects') :
    LET key == getMementoKey(rects'[k].cell)
    IN  ~DictHas(before, key)
          => /\ DictHas(mementoDictionary', key)
             /\ CacheOf(DictGet(mementoDictionary', key)) = rects'[k].cache

\* C9: getOrCreateCache on a cell without a memento generates the cache and
\* saves it at once: when it returns, the dictionary holds under the cell's
\* key a memento that deserialises to the cache returned.
C9_GeneratedIsSaved ==
  [][/\ RefreshingMove => SavesGeneratedState(mementoDictionary)
     /\ Restart => SavesGeneratedState(loadCacheData(localStorage))
     /\ Reset => SavesGeneratedState(<<>>)]_vars

\* a cache with an item has just been generated and its memento stored
C9_Witness ==
  /\ ret = NoCall
  /\ playerLocation = PointP
  /\ \E k \in 1..Len(rects) :
       /\ rects[k].cache = fillCache(createCache(rects[k].cell))
       /\ Len(rects[k].cache.inventory) > 0
       /\ DictGet(mementoDictionary, getMementoKey(rects[k].cell))
            = toMemento(rects[k].cache)

\* C10: in every state and for every cell, two getOrCreateCache calls in a
\* row return caches equal in location, numItems and inventory.
C10_GetOrCreateTwice ==
  \A cell \in ProbeCells :
    LET first  == getOrCreateCache(mementoDictionary, cell)
        second == getOrCreateCache(first.dict, cell)
    IN  second.cache = first.cache

\* one cell has a memento that differs from what generation gives, another
\* cell that generates items has none yet
C10_Witness ==
  /\ \E cell \in ProbeCells :
       /\ DictHas(mementoDictionary, getMementoKey(cell))
       /\ getOrCreateCache(mementoDictionary, cell).cache
            # fillCache(createCache(cell))
  /\ \E cell \in ProbeCells :
       /\ ~DictHas(mementoDictionary, getMementoKey(cell))
       /\ Len(getOrCreateCache(mementoDictionary, cell).cache.inventory) > 0

\* rectangle k shows a cache that was generated: no rectangle spawned before
\* it had left a memento under the key of its cell
Generated(k) ==
  \A m \in 1..(k - 1) :
    getMementoKey(rects[m].cell) # getMementoKey(rects[k].cell)

\* the cache a fresh process shows for a cell when it spawns no other cell
FreshRun(cell) ==
  spawnCache([dict |-> <<>>, rects |-> <<>>], cell).rects[1].cache

\* C11: the numItems and the ordered items (types and serials) of a generated
\* cache depend only on its cell: whatever cells were generated before it and
\* in whatever order, they are those a fresh process generates for the cell.
C11_GenerationDeterminism ==
  \A k \in 1..Len(rects) :
    Generated(k) => rects[k].cache = FreshRun(rects[k].cell)

\* CellC was generated with items after two other cells
C11_Witness ==
  /\ Len(rects) = 3
  /\ rects[3].cell = CellC
  /\ rects[1].cell = CellD
  /\ Generated(3)
  /\ Len(rects[3].cache.inventory) > 1
  /\ rects[3].cache.inventory[1].type # rects[3].cache.inventory[2].type

\* C12: fillCache on a freshly created cache sets numItems to an integer in
\* [0, MAX_CACHE_ITEMS) and leaves exactly numItems items; item k (from 0) has
\* serial k, the cell of the cache as origin and the type
\* getRandomItemType(cell, k), which is in the catalog.
C12_FillCacheContents ==
  \A k \in 1..Len(rects) :
    Generated(k) =>
      /\ rects[k].cache.location = rects[k].cell
      /\ rects[k].cache.numItems \in 0..(MAX_CACHE_ITEMS - 1)
      /\ Len(rects[k].cache.inventory) = rects[k].cache.numItems
      /\ \A m \in 1..Len(rects[k].cache.inventory) :
           /\ rects[k].cache.inventory[m].serial = m - 1
           /\ rects[k].cache.inventory[m].origin = rects[k].cell
           /\ rects[k].cache.inventory[m].type
                = getRandomItemType(rects[k].cell, m - 1)
           /\ \E t \in 1..Len(ITEM_TYPES) :
                rects[k].cache.inventory[m].type = ITEM_TYPES[t]

\* a cache was generated with the most items the RNG can roll, of both types
C12_Witness ==
  \E k \in 1..Len(rects) :
    /\ Generated(k)
    /\ rects[k].cache.numItems = MAX_CACHE_ITEMS - 1
    /\ Len(rects[k].cache.inventory) = MAX_CACHE_ITEMS - 1
    /\ rects[k].cache.inventory[1].type # rects[k].cache.inventory[2].type

\* C13 as claimed: when a reset completes the durable storage holds none of
\* the four keys, the player is at ORIGIN_LOCATION with an empty inventory,
\* and the memento dictionary is empty.
C13_ResetToDefaults ==
  [][Reset => /\ DOMAIN localStorage' \cap DurableKeys = {}
              /\ playerLocation' = ORIGIN_LOCATION
              /\ playerInventory' = <<>>
              /\ mementoDictionary' = <<>>]_vars

\* C13 as amended: when a reset completes the durable storage holds none of
\* the four keys, the player is at ORIGIN_LOCATION with an empty inventory,
\* and the memento dictionary holds nothing of the earlier state: each entry
\* is the memento of the freshly generated cache of a cell displayed around
\* the origin, as after a first start.
C13_ResetToFirstStart ==
  [][Reset => /\ DOMAIN localStorage' \cap DurableKeys = {}
              /\ playerLocation' = ORIGIN_LOCATION
              /\ playerInventory' = <<>>
              /\ \A e \in 1..Len(mementoDictionary') :
                   \E k \in 1..Len(rects') :
                     mementoDictionary'[e] =
                       <<getMementoKey(rects'[k].cell),
                         toMemento(FreshRun(rects'[k].cell))>>]_vars

\* a reset has completed (the watch registered before it is still there) and
\* the dictionary already holds the memento of the regenerated origin cache
C13_Witness ==
  /\ localStorage = NoStorage
  /\ ~autoMoveOn
  /\ watches # {}
  /\ playerLocation = ORIGIN_LOCATION
  /\ playerInventory = <<>>
  /\ Len(mementoDictionary) = 1
  /\ Len(rects) = 1
  /\ Len(rects[1].cache.inventory) > 0

\* the geolocation button is clicked while tracking is on
ToggleOff == autoMoveOn /\ ToggleAutoMoveUpTo(MaxWatches + 1)

\* C14: after automatic position tracking is toggled off no geolocation
\* callback moves the player any more, whatever toggles and resets came
\* before: when the toggle-off completes no watch is left registered that
\* could deliver a position to autoMove.
C14_ToggleOffStopsCallbacks ==
  [][ToggleOff => watches' = {}]_vars

\* the numItems rolled when the cache of a cell is generated
RolledCount(cell) == setRandomNumItems(createCache(cell)).numItems

\* every displayed cache carries the numItems rolled for its location
RolledCounts ==
  \A k \in 1..Len(rects) :
    rects[k].cache.numItems = RolledCount(rects[k].cache.location)

\* C15: collect and deposit never change the numItems or the location of a
\* cache, and after any sequence of transfers, saves, refreshes and reloads
\* the numItems of a cache is still the value rolled at generation, whatever
\* the length of its inventory.
C15_NumItemsIsTheRoll ==
  [][/\ \A k \in 1..Len(rects) :
          (Collect(k) \/ Deposit(k))
            => /\ rects'[k].cache.numItems = rects[k].cache.numItems
               /\ rects'[k].cache.location = rects[k].cache.location
     /\ RolledCounts']_vars

\* after a reload and no toggle since, away from the origin, the player
\* carries an item and a displayed cache that rolled one item has none
C15_Witness ==
  /\ nextWatch = 1
  /\ ret = NoCall
  /\ playerLocation # ORIGIN_LOCATION
  /\ Len(playerInventory) > 0
  /\ \E k \in 1..Len(rects) :
       /\ rects[k].cache.numItems = 1
       /\ rects[k].cache.inventory = <<>>

\* nothing that was left in the storage is malformed
SoundStorage ==
  /\ probe.corrupt = {}
  /\ "cacheData" \in probe.kept
       => \A e \in 1..Len(probe.dict) : IsJSON(probe.dict[e][2])

\* C16: a startup over a storage in which any subset of the four keys is
\* absent does not fail and uses the default of each absent key (the origin,
\* an empty history, an empty inventory, an empty dictionary, to which the
\* startup adds the position and the generated caches); each present key is
\* loaded as it was saved.
C16_AbsentKeysDefault ==
  (probe.done /\ SoundStorage) =>
    /\ ~probe.crashed
    /\ playerLocation = IF "locationData" \in probe.kept
                        THEN probe.location ELSE ORIGIN_LOCATION
    /\ movementHistory = Append(IF "movementData" \in probe.kept
                                THEN probe.history ELSE <<>>, playerLocation)
    /\ playerInventory = IF "inventoryData" \in probe.kept
                         THEN probe.inventory ELSE <<>>
    /\ IF "cacheData" \in probe.kept
       THEN \A e \in 1..Len(probe.dict) :
              /\ DictHas(mementoDictionary, probe.dict[e][1])
              /\ DictGet(mementoDictionary, probe.dict[e][1]) = probe.dict[e][2]
       ELSE \A e \in 1..Len(mementoDictionary) :
              \E k \in 1..Len(rects) :
                mementoDictionary[e] =
                  <<getMementoKey(rects[k].cell),
                    toMemento(FreshRun(rects[k].cell))>>

\* the page was loaded with the saved location and inventory only, and shows
\* generated caches
C16_Witness ==
  /\ probe.done
  /\ ~probe.crashed
  /\ probe.kept = {"locationData", "inventoryData"}
  /\ probe.corrupt = {}
  /\ playerLocation = PointQ
  /\ movementHistory = <<PointQ>>
  /\ Len(playerInventory) = 2
  /\ Len(rects) > 0
  /\ Len(mementoDictionary) > 0

\* the keys left in the storage with the value that was saved
Intact == probe.kept \ probe.corrupt

\* C17: a startup over a storage with a malformed value (a locationData,
\* movementData, inventoryData or cacheData string that does not parse, or a
\* memento inside cacheData that does not parse) does not fail: the malformed
\* key falls back to its default, the cache of a malformed memento is
\* generated again, and the other keys are loaded as saved.
C17_CorruptFallsBack ==
  probe.done =>
    /\ ~probe.crashed
    /\ playerLocation = IF "locationData" \in Intact
                        THEN probe.location ELSE ORIGIN_LOCATION
    /\ movementHistory = Append(IF "movementData" \in Intact
                                THEN probe.history ELSE <<>>, playerLocation)
    /\ playerInventory = IF "inventoryData" \in Intact
                         THEN probe.inventory ELSE <<>>
    /\ \A k \in 1..Len(rects) :
         \A e \in 1..Len(probe.dict) :
           (/\ "cacheData" \in Intact
            /\ probe.dict[e][1] = getMementoKey(rects[k].cell)
            /\ ~IsJSON(probe.dict[e][2]))
             => rects[k].cache = FreshRun(rects[k].cell)

\* C18: within one world getCellForPoint returns the same cell object for
\* any two points that round to the same (i, j), the Map of the world holds
\* at most one cell per (i, j), and the key "i,j" of a cell is the key of no
\* other pair of integers.
C18_Interning ==
  /\ \A a, b \in 1..Len(probe.calls) :
       getCellForPoint(probe.calls[a].point)
         = getCellForPoint(probe.calls[b].point)
           => probe.calls[a].cell.id = probe.calls[b].cell.id
  /\ \A a \in 1..Len(probe.calls) :
       /\ probe.calls[a].cell.i = getCellForPoint(probe.calls[a].point).i
       /\ probe.calls[a].cell.j = getCellForPoint(probe.calls[a].point).j
  /\ \A e, f \in 1..Len(probe.knownCells) :
       e # f => \/ probe.knownCells[e][2].i # probe.knownCells[f][2].i
                \/ probe.knownCells[e][2].j # probe.knownCells[f][2].j
  /\ \A e \in 1..Len(probe.knownCells) :
       \A c \in KeyCells :
         (c.i # probe.knownCells[e][2].i \/ c.j # probe.knownCells[e][2].j)
           => PairKey(c.i, c.j) # probe.knownCells[e][1]

\* two different points of one cell with a negative index were asked for,
\* and the second call returned the cell object the first had constructed
C18_Witness ==
  /\ Len(probe.calls) = 2
  /\ probe.calls[1].point # probe.calls[2].point
  /\ probe.calls[1].cell.i < 0
  /\ probe.calls[1].cell.id = probe.calls[2].cell.id
  /\ Len(probe.knownCells) = 1

\* C19: the cell returned by getCellForPoint(p) contains p: the latitude and
\* the longitude of p lie within the rectangle that getCellBounds returns for
\* the cell.
C19_CellContainsPoint ==
  \A a \in 1..Len(probe.calls) :
    /\ probe.calls[a].bounds.startCoord.lat <= probe.calls[a].point.lat
    /\ probe.calls[a].point.lat <= probe.calls[a].bounds.endCoord.lat
    /\ probe.calls[a].bounds.startCoord.lng <= probe.calls[a].point.lng
    /\ probe.calls[a].point.lng <= probe.calls[a].bounds.endCoord.lng

\* C20: getCellBounds(cell) is the rectangle from (i * CELL_DEGREES,
\* j * CELL_DEGREES) to ((i + 1) * CELL_DEGREES, (j + 1) * CELL_DEGREES)
\* measured from latitude 0, longitude 0, wherever the player is or started,
\* so that the end of cell i is the start of cell i + 1 on each axis.
C20_BoundsFromNullIsland ==
  \A a \in 1..Len(probe.calls) :
    /\ probe.calls[a].bounds.startCoord
         = [lat |-> probe.calls[a].cell.i * CELL_DEGREES,
            lng |-> probe.calls[a].cell.j * CELL_DEGREES]
    /\ probe.calls[a].bounds.endCoord
         = [lat |-> (probe.calls[a].cell.i + 1) * CELL_DEGREES,
            lng |-> (probe.calls[a].cell.j + 1) * CELL_DEGREES]
    /\ \A b \in 1..Len(probe.calls) :
         /\ probe.calls[b].cell.i = probe.calls[a].cell.i + 1
              => probe.calls[b].bounds.startCoord.lat
                   = probe.calls[a].bounds.endCoord.lat
         /\ probe.calls[b].cell.j = probe.calls[a].cell.j + 1
              => probe.calls[b].bounds.startCoord.lng
                   = probe.calls[a].bounds.endCoord.lng

\* the bounds of a cell south of the equator and of its northern and eastern
\* neighbour were asked for, while the player stands at the spawn point
C20_Witness ==
  /\ playerLocation = ORIGIN_LOCATION
  /\ Len(probe.calls) = 2
  /\ probe.calls[1].cell.i < 0
  /\ probe.calls[2].cell.i = probe.calls[1].cell.i + 1
  /\ probe.calls[2].cell.j = probe.calls[1].cell.j + 1
  /\ probe.calls[2].bounds.startCoord = probe.calls[1].bounds.endCoord

\* q is the integer nearest to n / CELL_DEGREES, the one farther from zero
\* when two integers are equally near
NearestAwayFromZero(n, q) ==
  /\ 2 * Abs(n - q * CELL_DEGREES) <= CELL_DEGREES
  /\ 2 * Abs(n - q * CELL_DEGREES) = CELL_DEGREES
       => Abs(q * CELL_DEGREES) > Abs(n)

\* C21: getCellForPoint rounds both axes and both signs the same way: i is
\* the integer nearest to lat / CELL_DEGREES and j the integer nearest to
\* lng / CELL_DEGREES, an exact half going away from zero.
C21_RoundsHalfAwayFromZero ==
  \A a \in 1..Len(probe.calls) :
    /\ NearestAwayFromZero(probe.calls[a].point.lat, probe.calls[a].cell.i)
    /\ NearestAwayFromZero(probe.calls[a].point.lng, probe.calls[a].cell.j)

\* exact halves of both signs were rounded on both axes: a point half a cell
\* south and half a cell east of (0, 0), then one half a cell north of cell
\* 1 and half a cell west
C21_Witness ==
  /\ Len(probe.calls) = 2
  /\ 2 * probe.calls[1].point.lat = -CELL_DEGREES
  /\ 2 * probe.calls[1].point.lng = CELL_DEGREES
  /\ probe.calls[1].cell.i = -1
  /\ probe.calls[1].cell.j = 1
  /\ 2 * probe.calls[2].point.lat = 3 * CELL_DEGREES
  /\ 2 * probe.calls[2].point.lng = -CELL_DEGREES
  /\ probe.calls[2].cell.i = 2
  /\ probe.calls[2].cell.j = -1

\* C22: getSavedCache for a cell whose key has no entry in the memento
\* dictionary returns null and adds or changes no entry.
C22_MissingKeyGivesNull ==
  (probe.op = "getSavedCache"
     /\ ~DictHas(probe.before, getMementoKey(probe.cell)))
    => /\ probe.got = <<>>
       /\ mementoDictionary = probe.before

\* the dictionary held the mementos of two other cells when a cell without
\* one was looked up
C22_Witness ==
  /\ probe.op = "getSavedCache"
  /\ Len(probe.before) = 2
  /\ ~DictHas(probe.before, getMementoKey(probe.cell))
  /\ probe.got = <<>>
  /\ mementoDictionary = probe.before

\* C23: between resets the set of keys of the memento dictionary only grows:
\* a move, a refresh, a collect, a deposit, a toggle of the tracking or a
\* reload of the page removes no entry; only a reset does.
C23_KeysOnlyGrow ==
  [][Reset \/ DictKeys(mementoDictionary) \subseteq DictKeys(mementoDictionary')]_vars

\* the player has walked away from two caches: none is displayed, and the
\* dictionary still holds the mementos of both
C23_Witness ==
  /\ rects = <<>>
  /\ Len(mementoDictionary) = 2
  /\ playerLocation = ORIGIN_LOCATION
  /\ localStorage # NoStorage

\* C24: the player inventory is changed only by a collect or a deposit that
\* moved an item, and emptied by a reset: button moves, geolocation moves,
\* the refreshes and generation of caches they cause, toggles of the
\* tracking and reloads of the page leave it as it was.
C24_InventoryFrame ==
  [][\/ playerInventory' = playerInventory
     \/ ret'.op \in {"collect", "deposit"} /\ ret'.item # <<>>
     \/ Reset]_vars

\* the player collected an item near the caches and then walked on with a
\* movement button, still carrying it
C24_Witness ==
  /\ playerInventory # <<>>
  /\ ret = NoCall
  /\ Len(movementHistory) = 2
  /\ playerLocation \notin GeoPoints
  /\ rects # <<>>

\* a refresh of the map restores the cache of rectangle k from the memento
\* that the cache displayed at m for the same cell had saved
RestoredFrom(k, m) ==
  /\ playerLocation' # playerLocation
  /\ rects'[k].cell = rects[m].cell

\* C25: in the program whose caches are closures, restoring a memento
\* gives a cache whose record agrees with the state its closures hold: the
\* fields cacheItems and numItems of the cache that getSavedCache returns
\* equal those of the cache that was saved, and toMemento of a restored
\* cache serializes what its field cacheItems holds, also after collects
\* and deposits.
C25_RestoredRecordAgrees ==
  [][/\ \A k \in 1..Len(rects') : \A m \in 1..Len(rects) :
          RestoredFrom(k, m)
            => /\ rects'[k].cache.cacheItems = rects[m].cache.cacheItems
               /\ rects'[k].cache.numItems = rects[m].cache.numItems
     /\ \A k \in 1..Len(rects') :
          ~rects'[k].cache.sameArray
            => main_toMemento(rects'[k].cache)
                 = main_toMemento(main_setCacheItems(
                     main_createCache(rects'[k].cache.captured.location),
                     rects'[k].cache.cacheItems))]_vars

\* the items that fillCache makes for a cell when no item was made before
FirstFilled(cell) == main_fillCache(main_createCache(cell), 0).cache.cacheItems

\* C26: in the program that numbers the items by one counter, the types and
\* serials of the items that fillCache makes for a cell do not depend on how
\* many items were made for other cells before: every item, in a cache or
\* carried by the player, is one of those made for its cell of origin when
\* it is the first cell filled.
C26_ItemsIndependentOfOrder ==
  /\ \A k \in 1..Len(rects) :
       \A n \in 1..Len(rects[k].cache.cacheItems) :
         \E f \in 1..Len(FirstFilled(rects[k].cache.cacheItems[n].origin)) :
           FirstFilled(rects[k].cache.cacheItems[n].origin)[f]
             = rects[k].cache.cacheItems[n]
  /\ \A n \in 1..Len(playerInventory) :
       \E f \in 1..Len(FirstFilled(playerInventory[n].origin)) :
         FirstFilled(playerInventory[n].origin)[f] = playerInventory[n]

\* the identities an item of the modelled worlds may have
Identities == [origin : GenCells, serial : 0..MaxRoll]

\* how many items of a list have the identity id
Occurs(items, id) ==
  Cardinality({n \in 1..Len(items) :
                 items[n].origin = id.origin /\ items[n].serial = id.serial})

\* the same, summed over the inventories of the displayed caches from k on
RECURSIVE OccursLive(_, _, _)
OccursLive(shown, k, id) ==
  IF k > Len(shown) THEN 0
  ELSE Occurs(shown[k].cache.inventory, id) + OccursLive(shown, k + 1, id)

\* the same, summed over the mementos of a dictionary from entry e on
RECURSIVE OccursStored(_, _, _)
OccursStored(dict, e, id) ==
  IF e > Len(dict) THEN 0
  ELSE Occurs(CacheOf(dict[e][2]).inventory, id) + OccursStored(dict, e + 1, id)

\* C27: no item is ever duplicated or lost: each item identity (origin
\* cell, serial) occurs at most once across the player inventory and the
\* inventories of the displayed caches, and a collect or a deposit leaves
\* the multiset of items over the player inventory and the stored mementos
\* as it was.
C27_ItemsConserved ==
  [][/\ \A id \in Identities :
          Occurs(playerInventory, id) + OccursLive(rects, 1, id) <= 1
     /\ (\E k \in 1..Len(rects) : Collect(k) \/ Deposit(k))
          => \A id \in Identities :
               Occurs(playerInventory', id) + OccursStored(mementoDictionary', 1, id)
                 = Occurs(playerInventory, id)
                     + OccursStored(mementoDictionary, 1, id)]_vars

\* C28: the cache returned by getOrCreateCache(c), and by getSavedCache(c)
\* when it is not null, has a location equal to the requested cell c, in
\* every state of the memento dictionary.
C28_ReturnedLocationIsRequested ==
  probe.got # <<>> => probe.got[1].location = probe.cell

\* the memento dictionary of the program started again from the durable
\* storage: loadCacheData(), then spawnCaches() at the loaded location
RestartedDictionary ==
  spawnCaches(loadCacheData(localStorage), <<>>,
              loadPlayerLocation(localStorage)).dict

\* C29: in every state between events, the program started again from the
\* durable storage has the player location and the player inventory of the
\* running program, and getOrCreateCache gives it, for every cell, the cache
\* contents that getOrCreateCache gives the running program from the
\* dictionary it holds in memory.  This includes the states right after a
\* start and right after a reset, when generated mementos are not stored yet.
C29_RestartEquivalence ==
  /\ loadPlayerLocation(localStorage) = playerLocation
  /\ loadPlayerInventory(localStorage) = playerInventory
  /\ \E restarted \in {RestartedDictionary} :
       \A cell \in GenCells \cup {CellO} :
         getOrCreateCache(restarted, cell).cache
           = getOrCreateCache(mementoDictionary, cell).cache

\* after a reset the storage is empty while the dictionary holds the
\* generated cache of the classroom, which is displayed with its item
C29_Witness ==
  /\ localStorage = NoStorage
  /\ watches # {}
  /\ ~autoMoveOn
  /\ Len(rects) = 1
  /\ rects[1].cache.inventory # <<>>
  /\ DictHas(mementoDictionary, getMementoKey(CellO))

\* the cells whose caches are displayed
DisplayedCells(shown) == {shown[k].cell : k \in 1..Len(shown)}

\* the cache-bearing cells whose offsets from the cell of the location lie
\* in [-CELL_VISIBILITY_RADIUS, CELL_VISIBILITY_RADIUS) on both axes
CellsInSight(location) ==
  {c \in {CellA, CellB, CellC, CellE, CellF, CellO} :
     /\ isLucky(c)
     /\ c.i - getCellForPoint(location).i
          \in (-CELL_VISIBILITY_RADIUS)..(CELL_VISIBILITY_RADIUS - 1)
     /\ c.j - getCellForPoint(location).j
          \in (-CELL_VISIBILITY_RADIUS)..(CELL_VISIBILITY_RADIUS - 1)}

\* C30: after every completed move of the player (movePlayerInDirection or
\* movePlayerToLocation, with a step of any size) the displayed caches are
\* exactly those of the cache-bearing cells in the window around the cell
\* the player is in.
C30_DisplayedIsInSight ==
  [][playerLocation' # playerLocation
       => DisplayedCells(rects') = CellsInSight(playerLocation')]_vars

\* C31: the geolocation watch and the flag autoMoveOn stay in step after any
\* sequence of toggles and resets: a watch is registered if and only if
\* autoMoveOn is true, and at most one watch is registered at any time.
C31_WatchInStepWithFlag ==
  /\ autoMoveOn <=> watches # {}
  /\ Cardinality(watches) <= 1

\* an event that ends with spawnCaches() around the player
Respawn == RefreshingMove \/ Reset \/ Restart

\* C32: whether a cell hosts a cache is a fixed function of the cell's own
\* (i, j): from every position of the player whose window contains the cell,
\* spawnCaches displays a cache on it exactly when luck("i,j") is below
\* CACHE_SPAWN_CHANCE, hence from all such positions or from none.
C32_CacheIsFunctionOfCell ==
  [][Respawn => DisplayedCells(rects') = CellsInSight(playerLocation')]_vars

\* the cache in the first row of the window around PointP is displayed again
\* from a second position, a button move away, whose window also contains it,
\* while the cache beyond the last row is displayed from neither
C32_Witness ==
  /\ Len(movementHistory) = 2
  /\ movementHistory[1] = PointP
  /\ getCellForPoint(playerLocation) # getCellForPoint(PointP)
  /\ DisplayedCells(rects) = {CellE}
  /\ isLucky(CellF)

\* what collectItemFromCache and then depositItemToCache, called on the cache
\* of rectangle k, leave: the cache, the player inventory, the dictionary
\* and the durable storage
CollectThenDeposit(k) ==
  Bind(collectItemFromCache(rects[k].cache, playerInventory, mementoDictionary,
                            localStorage, playerLocation, movementHistory),
       LAMBDA collected :
         depositItemToCache(collected.cache, collected.inventory,
                            collected.dict, collected.storage,
                            playerLocation, movementHistory))

\* localStorage.getItem(key): <<value>>, or <<>> for null
StoredValue(storage, key) ==
  IF key \in DOMAIN storage THEN <<storage[key]>> ELSE <<>>

\* the collect and the deposit bring back the cache of rectangle k, the
\* player inventory and the memento of the cache
RestoresMemory(k, after) ==
  /\ after.cache = rects[k].cache
  /\ after.inventory = playerInventory
  /\ DictGet(after.dict, getMementoKey(rects[k].cache.location))
       = DictGet(mementoDictionary, getMementoKey(rects[k].cache.location))

MovedItem(k) == (Collect(k) \/ Deposit(k)) /\ ret'.item # <<>>

\* the step did not touch the entry of the dictionary under key
EntryUnchanged(key) ==
  /\ DictHas(mementoDictionary, key) <=> DictHas(mementoDictionary', key)
  /\ DictHas(mementoDictionary, key)
       => DictGet(mementoDictionary', key) = DictGet(mementoDictionary, key)

\* C34: a collect or deposit on a cache changes only the entry of the memento
\* dictionary under getMementoKey(cache.location), which it overwrites with
\* the memento of the whole cache as it is now; every other entry stays.
C34_OnlyOwnEntryChanges ==
  [][\A k \in 1..Len(rects) :
       MovedItem(k)
         => /\ DictGet(mementoDictionary',
                       getMementoKey(rects[k].cache.location))
                 = toMemento(rects'[k].cache)
            /\ \A key \in (DictKeys(mementoDictionary)
                             \cup DictKeys(mementoDictionary'))
                          \ {getMementoKey(rects[k].cache.location)} :
                 EntryUnchanged(key)]_vars

\* an item generated in another cell was just deposited into a displayed
\* cache, whose entry holds it, next to the entry of another cache
C34_Witness ==
  /\ ret.op = "deposit"
  /\ ret.item # <<>>
  /\ \E k \in 1..Len(rects) :
       /\ ret.item[1].origin # rects[k].cache.location
       /\ Last(rects[k].cache.inventory) = ret.item[1]
       /\ DictGet(mementoDictionary, getMementoKey(rects[k].cache.location))
            = toMemento(rects[k].cache)
       /\ \E key \in DictKeys(mementoDictionary) :
            /\ key # getMementoKey(rects[k].cache.location)
            /\ DictGet(mementoDictionary, key) # toMemento(rects[k].cache)

\* C35: among the cells with negative j getMementoKey is injective, and a
\* cell with negative j never shares its key with a cell whose j is zero or
\* more: the minus sign of j marks where i ends.
C35_KeyInjectiveForNegativeJ ==
  (/\ keyA.key # <<>>
   /\ keyB.key # <<>>
   /\ keyA.cell # keyB.cell
   /\ keyA.cell.j < 0)
    => keyA.key # keyB.key

\* the keys of (1,-11) and (11,-1) were computed: they differ, though the
\* digits of the two cells are the same
C35_Witness ==
  /\ keyA.cell = [i |-> 1, j |-> -MaxCoord]
  /\ keyB.cell = [i |-> MaxCoord, j |-> -1]
  /\ keyA.key # <<>>
  /\ keyB.key # <<>>
  /\ keyA.key # keyB.key
  /\ getMementoKey(keyA.cell) = keyA.key
  /\ getMementoKey(keyB.cell) = keyB.key
  /\ SelectSeq(keyA.key, IsDigit) = SelectSeq(keyB.key, IsDigit)

====
